---- MODULE Spec2Model ----
(***************************************************************************)
(* Skillboard: the band classifier, the employee-skill rating rows, the    *)
(* recalculation of bands and the learning assignments                     *)
(* (backend/app/api/bands.py, api/learning.py, api/userskills.py,          *)
(* db/crud.py, db/models.py, db/database.py).                              *)
(*                                                                         *)
(* The database is the state: one variable per table, each a set of rows.  *)
(* Every request handler is one action that runs to its commit.            *)
(***************************************************************************)
EXTENDS Integers, Sequences, FiniteSets, TLC

VARIABLES
    employees,           \* employees table: employee id -> stored band
    employee_skills,     \* employee_skills table: set of rows
    role_requirements,   \* role_requirements table: set of rows
    courses,             \* courses table: set of rows
    course_assignments,  \* course_assignments table: set of rows
    average,             \* the argument of the last calculate_band call
    response,            \* the response of the last request
    first_rating,        \* history: row id -> first non-null rating written
    in_flight            \* requests that have read and not yet committed

vars == <<employees, employee_skills, role_requirements, courses,
          course_assignments, average, response, first_rating,
          in_flight>>

(***************************************************************************)
(* Bounds of the model.                                                    *)
(***************************************************************************)
MaxEmployees == 2
MaxSkills == 2
MaxCourses == 2
MaxCount == 4
MaxIds == 2

EmployeeIds == 1..MaxEmployees
SkillIds == 1..MaxSkills
CourseIds == 1..MaxCourses

\* Python None, SQL NULL
Null == "None"

(***************************************************************************)
(* db/models.py: the rating scale                                          *)
(***************************************************************************)
RatingEnum == {"Beginner", "Developing", "Intermediate", "Advanced", "Expert"}

Bands == {"A", "B", "C", "L1", "L2"}

(***************************************************************************)
(* api/bands.py: the band classifier                                       *)
(***************************************************************************)
RATING_TO_NUMBER ==
    [r \in RatingEnum |->
        CASE r = "Beginner" -> 1
          [] r = "Developing" -> 2
          [] r = "Intermediate" -> 3
          [] r = "Advanced" -> 4
          [] r = "Expert" -> 5]

\* The dict in insertion order; the bounds are kept in tenths (1.5 is 15), so
\* that an average total/count is compared exactly: min <= total/count < max
\* is min*count <= 10*total < max*count.
BAND_THRESHOLDS ==
    << [band |-> "A",  min_val |-> 10, max_val |-> 15],
       [band |-> "B",  min_val |-> 15, max_val |-> 25],
       [band |-> "C",  min_val |-> 25, max_val |-> 35],
       [band |-> "L1", min_val |-> 35, max_val |-> 45],
       [band |-> "L2", min_val |-> 45, max_val |-> 50] >>

\* calculate_band with the upper bound of each interval taken as inclusive.
RECURSIVE ScanInclusive(_, _, _)
ScanInclusive(i, total, count) ==
    IF i > Len(BAND_THRESHOLDS) THEN Null
    ELSE IF /\ BAND_THRESHOLDS[i].min_val * count <= 10 * total
            /\ 10 * total <= BAND_THRESHOLDS[i].max_val * count
         THEN BAND_THRESHOLDS[i].band
         ELSE ScanInclusive(i + 1, total, count)

calculate_band_inclusive(total, count) ==
    LET hit == ScanInclusive(1, total, count)
    IN  IF hit # Null THEN hit
        ELSE IF total < count THEN "A"
        ELSE "L2"

\* for band, (min_val, max_val) in BAND_THRESHOLDS.items(): the first hit
RECURSIVE ScanThresholds(_, _, _)
ScanThresholds(i, total, count) ==
    IF i > Len(BAND_THRESHOLDS) THEN Null
    ELSE IF /\ BAND_THRESHOLDS[i].min_val * count <= 10 * total
            /\ 10 * total < BAND_THRESHOLDS[i].max_val * count
         THEN BAND_THRESHOLDS[i].band
         ELSE ScanThresholds(i + 1, total, count)

\* calculate_band(average_rating), average_rating = total / count
calculate_band(total, count) ==
    LET hit == ScanThresholds(1, total, count)
    IN  IF hit # Null THEN hit
        ELSE IF total < count THEN "A"     \* average_rating < 1.0
        ELSE "L2"

(***************************************************************************)
(* The classifier alone: every average total/count with count in           *)
(* 1..MaxCount, from 0 up to 6.0 (below and above the scale included).     *)
(***************************************************************************)
NoTables ==
    /\ employees = << >>
    /\ employee_skills = {}
    /\ role_requirements = {}
    /\ courses = {}
    /\ course_assignments = {}
    /\ first_rating = << >>
    /\ in_flight = << >>

InitBand ==
    /\ NoTables
    /\ \E count \in 1..MaxCount :
         \E total \in 0..(6 * count) :
            average = [total |-> total, count |-> count]
    /\ response = [status |-> 0]

CalculateBand ==
    /\ response.status = 0
    /\ response' = [status |-> 200,
                    band |-> calculate_band(average.total, average.count)]
    /\ UNCHANGED <<employees, employee_skills, role_requirements, courses,
                   course_assignments, average, first_rating,
                   in_flight>>

NextBand == CalculateBand

SpecBand == InitBand /\ [][NextBand]_vars

\* The intervals as the claim states them, in halves: 2*total vs k*count.
InClaimedInterval(b, total, count) ==
    CASE b = "A"  -> 2 * total < 3 * count
      [] b = "B"  -> 3 * count <= 2 * total /\ 2 * total < 5 * count
      [] b = "C"  -> 5 * count <= 2 * total /\ 2 * total < 7 * count
      [] b = "L1" -> 7 * count <= 2 * total /\ 2 * total < 9 * count
      [] b = "L2" -> 9 * count <= 2 * total

\* C1: calculate_band is total and lands every average in exactly one band:
\* average < 1.5 gives A, [1.5, 2.5) B, [2.5, 3.5) C, [3.5, 4.5) L1 and
\* >= 4.5 L2; the boundaries 1.5, 2.5, 3.5, 4.5 belong to the upper band.
C1_BandIntervals ==
    "band" \in DOMAIN response =>
        /\ response.band \in Bands
        /\ InClaimedInterval(response.band, average.total, average.count)
        /\ \A b \in Bands :
              InClaimedInterval(b, average.total, average.count)
                  => b = response.band

\* A boundary average (exactly 1.5, from ratings 1 and 2) classified as B.
C1_Witness ==
    /\ "band" \in DOMAIN response
    /\ average.count = 2
    /\ average.total = 3
    /\ response.band = "B"

(***************************************************************************)
(* db/crud.py, api/userskills.py: employees and employee-skill rows        *)
(***************************************************************************)
\* Ratings that request payloads carry in the rating-row specifications.
RatingInputs == {"Beginner", "Advanced"}

\* The rows an autoincrement id may reach in the rating-row specifications.
MaxRows == 2

\* EmployeeSkillUpdate: rating and is_interested are both Optional; a field a
\* payload leaves out is None.
UpdatePayloads ==
    {[rating |-> r] : r \in RatingInputs \cup {Null}}
    \cup {[rating |-> r, is_interested |-> b] :
            r \in RatingInputs \cup {Null}, b \in BOOLEAN}

\* crud.get_employee_by_id / get_employee_by_db_id: .first() as a set, {} for
\* None.  The model uses one number for Employee.id and Employee.employee_id.
get_employee_by_id(emps, employee_id) == {employee_id} \cap DOMAIN emps

\* create_employee giving a new employee the lowest band instead of NULL.
create_employee_banded(emps, employee_id) ==
    [e \in DOMAIN emps \cup {employee_id} |->
        IF e = employee_id THEN "A" ELSE emps[e]]

\* crud.create_employee: Employee(**employee) carries no band, so band is NULL
create_employee(emps, employee_id) ==
    [e \in DOMAIN emps \cup {employee_id} |->
        IF e = employee_id THEN Null ELSE emps[e]]

\* crud.upsert_employee: the update branch writes name, first_name, ...,
\* category, none of which the model keeps; band is written by neither branch
upsert_employee(emps, employee_id) ==
    IF get_employee_by_id(emps, employee_id) # {}
    THEN emps
    ELSE create_employee(emps, employee_id)

\* crud.get_employee_skill: .first() of the rows of the pair, as a set ({} for
\* None)
get_employee_skill(rows, employee_id, skill_id) ==
    LET found == {r \in rows : r.employee_id = employee_id
                               /\ r.skill_id = skill_id}
    IN  {r \in found : \A q \in found : r.id <= q.id}

\* the autoincrement primary key (no handler of the model deletes a row)
NextRowId(rows) == Cardinality(rows) + 1

\* crud.create_employee_skill: initial_rating is filled from rating only when
\* the dict has no "initial_rating" key
crud_create_employee_skill(rows, employee_skill) ==
    LET filled ==
            IF /\ employee_skill.rating # Null
               /\ "initial_rating" \notin DOMAIN employee_skill
            THEN employee_skill.rating
            ELSE IF "initial_rating" \in DOMAIN employee_skill
                 THEN employee_skill.initial_rating
                 ELSE Null
    IN  rows \cup {[id |-> NextRowId(rows),
                    employee_id |-> employee_skill.employee_id,
                    skill_id |-> employee_skill.skill_id,
                    rating |-> employee_skill.rating,
                    initial_rating |-> filled,
                    is_interested |-> employee_skill.is_interested]}

\* upsert_employee_skill with initial_rating overwritten on every rating write.
upsert_employee_skill_overwrite(rows, employee_id, skill_id, rating, is_interested) ==
    LET hit == get_employee_skill(rows, employee_id, skill_id)
        old == CHOOSE r \in hit : TRUE
    IN  IF hit # {}
        THEN LET r1 == IF rating # Null /\ ~is_interested
                       THEN [old EXCEPT !.initial_rating = rating,
                                        !.rating = rating]
                       ELSE IF is_interested
                            THEN [old EXCEPT !.rating = Null]
                            ELSE old
             IN  (rows \ {old}) \cup {[r1 EXCEPT !.is_interested = is_interested]}
        ELSE LET final_rating ==
                     IF is_interested THEN Null
                     ELSE IF rating # Null THEN rating ELSE "Beginner"
             IN  crud_create_employee_skill(rows,
                    [employee_id |-> employee_id, skill_id |-> skill_id,
                     rating |-> final_rating, initial_rating |-> final_rating,
                     is_interested |-> is_interested])

\* crud.upsert_employee_skill
upsert_employee_skill(rows, employee_id, skill_id, rating, is_interested) ==
    LET hit == get_employee_skill(rows, employee_id, skill_id)
        db_employee_skill == CHOOSE r \in hit : TRUE
    IN  IF hit # {}
        THEN LET r1 == IF rating # Null /\ ~is_interested
                       THEN [db_employee_skill EXCEPT
                               !.initial_rating =
                                   IF @ = Null THEN rating ELSE @,
                               !.rating = rating]
                       ELSE IF is_interested
                            THEN [db_employee_skill EXCEPT !.rating = Null]
                            ELSE db_employee_skill
             IN  (rows \ {db_employee_skill})
                     \cup {[r1 EXCEPT !.is_interested = is_interested]}
        ELSE LET final_rating ==
                     IF is_interested THEN Null
                     ELSE IF rating # Null THEN rating ELSE "Beginner"
             IN  crud_create_employee_skill(rows,
                    [employee_id |-> employee_id, skill_id |-> skill_id,
                     rating |-> final_rating, initial_rating |-> final_rating,
                     is_interested |-> is_interested])

\* the body shared by update_my_skill and update_employee_skill: the writes
\* to the row found
ApplyUpdate(row, payload) ==
    LET r1 == IF payload.rating # Null
              THEN [row EXCEPT !.rating = payload.rating]
              ELSE row
    IN  IF "is_interested" \in DOMAIN payload
        THEN [r1 EXCEPT !.is_interested = payload.is_interested]
        ELSE r1

RowsUnchanged == UNCHANGED <<role_requirements, courses, course_assignments,
                             average, in_flight>>

\* auth.register with an employee_id: crud.upsert_employee
register(employee_id) ==
    /\ employees' = upsert_employee(employees, employee_id)
    /\ response' = [status |-> 200]
    /\ UNCHANGED employee_skills
    /\ RowsUnchanged

\* POST /api/user-skills/me by the user linked to employee_id.  The category
\* template check rejects a skill outside the employee's category template
\* with 400 and no write; the model's employees have no category.
create_my_skill(employee_id, skill_id, rating, is_interested) ==
    IF get_employee_by_id(employees, employee_id) = {}
    THEN /\ response' = [status |-> 404]
         /\ UNCHANGED <<employees, employee_skills>>
         /\ RowsUnchanged
    ELSE /\ NextRowId(employee_skills) <= MaxRows
            \/ get_employee_skill(employee_skills, employee_id, skill_id) # {}
         /\ employee_skills' =
               upsert_employee_skill(employee_skills, employee_id, skill_id,
                   IF is_interested THEN Null
                   ELSE IF rating # Null THEN rating ELSE "Beginner",
                   is_interested)
         /\ response' = [status |-> 200]
         /\ UNCHANGED employees
         /\ RowsUnchanged

\* POST /api/user-skills/ (legacy): upsert_employee, then upsert_employee_skill
create_employee_skill(employee_id, skill_id, rating, is_interested) ==
    /\ NextRowId(employee_skills) <= MaxRows
       \/ get_employee_skill(employee_skills, employee_id, skill_id) # {}
    /\ employees' = upsert_employee(employees, employee_id)
    /\ employee_skills' =
          upsert_employee_skill(employee_skills, employee_id, skill_id,
                                rating, is_interested)
    /\ response' = [status |-> 200]
    /\ RowsUnchanged

\* PUT /api/user-skills/me/{employee_skill_id} by the user linked to employee_id
update_my_skill(employee_id, employee_skill_id, payload) ==
    LET found == {r \in employee_skills : r.id = employee_skill_id
                                          /\ r.employee_id = employee_id}
    IN  IF get_employee_by_id(employees, employee_id) = {} \/ found = {}
        THEN /\ response' = [status |-> 404]
             /\ UNCHANGED <<employees, employee_skills>>
             /\ RowsUnchanged
        ELSE /\ employee_skills' =
                   {IF r \in found THEN ApplyUpdate(r, payload) ELSE r :
                        r \in employee_skills}
             /\ response' = [status |-> 200]
             /\ UNCHANGED employees
             /\ RowsUnchanged

\* PUT /api/user-skills/{employee_skill_id} (legacy)
update_employee_skill(employee_skill_id, payload) ==
    LET found == {r \in employee_skills : r.id = employee_skill_id}
    IN  IF found = {}
        THEN /\ response' = [status |-> 404]
             /\ UNCHANGED <<employees, employee_skills>>
             /\ RowsUnchanged
        ELSE /\ employee_skills' =
                   {IF r \in found THEN ApplyUpdate(r, payload) ELSE r :
                        r \in employee_skills}
             /\ response' = [status |-> 200]
             /\ UNCHANGED employees
             /\ RowsUnchanged

(***************************************************************************)
(* api/bands.py: the band of an employee and calculate-all                 *)
(***************************************************************************)
RECURSIVE SumRatings(_)
SumRatings(rows) ==
    IF rows = {} THEN 0
    ELSE LET r == CHOOSE x \in rows : TRUE
         IN  RATING_TO_NUMBER[r.rating] + SumRatings(rows \ {r})

\* calculate_employee_band without the is_interested filter.
calculate_employee_band_unfiltered(rows, employee_id) ==
    LET employee_skills_q ==
            {r \in rows : /\ r.employee_id = employee_id
                          /\ r.rating # Null}
    IN  IF employee_skills_q = {} THEN "A"
        ELSE calculate_band(SumRatings(employee_skills_q),
                            Cardinality(employee_skills_q))

\* calculate_employee_band: the rows of the employee with is_interested false
\* and a rating; every such row counts (a rating is a non-empty string)
calculate_employee_band(rows, employee_id) ==
    LET employee_skills_q ==
            {r \in rows : /\ r.employee_id = employee_id
                          /\ r.is_interested = FALSE
                          /\ r.rating # Null}
    IN  IF employee_skills_q = {} THEN "A"
        ELSE calculate_band(SumRatings(employee_skills_q),
                            Cardinality(employee_skills_q))

\* calculate_all_result counting every employee as updated.
calculate_all_result_uncompared(emps, rows) ==
    [employees |-> [e \in DOMAIN emps |-> calculate_employee_band(rows, e)],
     total_employees |-> Cardinality(DOMAIN emps),
     updated |-> Cardinality(DOMAIN emps)]

\* calculate_all_employee_bands: the loop and the counts it returns
calculate_all_result(emps, rows) ==
    [employees |-> [e \in DOMAIN emps |->
                        IF emps[e] # calculate_employee_band(rows, e)
                        THEN calculate_employee_band(rows, e)
                        ELSE emps[e]],
     total_employees |-> Cardinality(DOMAIN emps),
     updated |-> Cardinality({e \in DOMAIN emps :
                        emps[e] # calculate_employee_band(rows, e)})]

\* POST /api/bands/calculate-all
calculate_all_employee_bands ==
    LET out == calculate_all_result(employees, employee_skills)
    IN  /\ employees' = out.employees
        /\ response' = [status |-> 200,
                        total_employees |-> out.total_employees,
                        updated |-> out.updated]
        /\ UNCHANGED employee_skills
        /\ RowsUnchanged

(***************************************************************************)
(* The rating rows and the stored bands: a database with no employee, the  *)
(* requests above in any order.                                            *)
(***************************************************************************)
InitSkills ==
    /\ employees = << >>
    /\ employee_skills = {}
    /\ role_requirements = {}
    /\ courses = {}
    /\ course_assignments = {}
    /\ average = Null
    /\ response = [status |-> 0]
    /\ first_rating = << >>
    /\ in_flight = << >>

Register == \E e \in EmployeeIds : register(e)

CreateMySkill ==
    \E e \in EmployeeIds, s \in SkillIds, r \in RatingInputs \cup {Null},
       i \in BOOLEAN : create_my_skill(e, s, r, i)

CreateEmployeeSkill ==
    \E e \in EmployeeIds, s \in SkillIds, r \in RatingInputs \cup {Null},
       i \in BOOLEAN : create_employee_skill(e, s, r, i)

UpdateMySkill ==
    \E e \in EmployeeIds, id \in 1..MaxRows, p \in UpdatePayloads :
        update_my_skill(e, id, p)

UpdateEmployeeSkill ==
    \E id \in 1..MaxRows, p \in UpdatePayloads : update_employee_skill(id, p)

CalculateAll == calculate_all_employee_bands

NextSkills ==
    \/ Register /\ UNCHANGED first_rating
    \/ CreateMySkill /\ UNCHANGED first_rating
    \/ CreateEmployeeSkill /\ UNCHANGED first_rating
    \/ UpdateMySkill /\ UNCHANGED first_rating
    \/ UpdateEmployeeSkill /\ UNCHANGED first_rating
    \/ CalculateAll /\ UNCHANGED first_rating

SpecSkills == InitSkills /\ [][NextSkills]_vars

\* C6 (as claimed): every EmployeeSkill row with is_interested = true has
\* rating = null, whatever create and update requests were served.
C6_InterestedRatingNull ==
    \A r \in employee_skills : r.is_interested => r.rating = Null

\* C8: initial_rating is write-once and the row of a pair is updated in
\* place: a step keeps every row (same id, same pair), never changes an
\* initial_rating that is set, and never leaves two rows for one pair.
C8_InitialRatingWriteOnce ==
    [][/\ \A r \in employee_skills :
             \E q \in employee_skills' :
                /\ q.id = r.id
                /\ q.employee_id = r.employee_id
                /\ q.skill_id = r.skill_id
                /\ r.initial_rating # Null
                       => q.initial_rating = r.initial_rating
       /\ \A q1, q2 \in employee_skills' :
             (q1.employee_id = q2.employee_id /\ q1.skill_id = q2.skill_id)
                 => q1 = q2]_vars

\* A row whose rating was changed by an upsert after its first rating: rating
\* and initial_rating are both set and differ, on a row that is not the last
\* one created.
C8_Witness ==
    \E r \in employee_skills :
        /\ r.initial_rating # Null
        /\ r.rating # Null
        /\ r.rating # r.initial_rating
        /\ r.is_interested = FALSE
        /\ r.id < Cardinality(employee_skills)

\* C9: only calculate-all changes a stored band: in every step that is not a
\* calculate-all, every existing employee keeps its band and an employee the
\* step creates has band = null.
C9_BandOnlyByCalculateAll ==
    [][/\ \A e \in DOMAIN employees :
             /\ e \in DOMAIN employees'
             /\ employees'[e] # employees[e]
                    => "updated" \in DOMAIN response'
       /\ \A e \in DOMAIN employees' \ DOMAIN employees :
             employees'[e] = Null]_vars

\* A stored band that is stale: an employee whose stored band was written by
\* calculate-all and differs from the band of the current ratings, next to an
\* employee created since, whose band is still null.
C9_Witness ==
    /\ \E e \in DOMAIN employees :
          /\ employees[e] # Null
          /\ employees[e] # calculate_employee_band(employee_skills, e)
    /\ \E e \in DOMAIN employees : employees[e] = Null

\* The band the claim's intervals give the qualifying ratings of an employee.
ClaimedBand(rows, e) ==
    LET q == {r \in rows : r.employee_id = e /\ ~r.is_interested
                           /\ r.rating # Null}
    IN  IF q = {} THEN "A"
        ELSE CHOOSE b \in Bands :
                InClaimedInterval(b, SumRatings(q), Cardinality(q))

\* C10: a calculate-all step leaves every employee with the band of its
\* current non-interested, non-null ratings (A when there are none), never
\* null; it reports total_employees = the employees and updated = the
\* employees whose stored band the step changed.
C10_CalculateAllResult ==
    [][("updated" \in DOMAIN response') =>
          /\ DOMAIN employees' = DOMAIN employees
          /\ \A e \in DOMAIN employees' :
                /\ employees'[e] \in Bands
                /\ employees'[e] = ClaimedBand(employee_skills', e)
          /\ response'.total_employees = Cardinality(DOMAIN employees')
          /\ response'.updated =
                Cardinality({e \in DOMAIN employees :
                                employees[e] # employees'[e]})]_vars

\* A calculate-all over two employees that changed one band only, where an
\* employee holds a rated non-interested row and an interested row that
\* carries a higher rating, and got the band of the former alone.
C10_Witness ==
    /\ "updated" \in DOMAIN response
    /\ response.total_employees = 2
    /\ response.updated = 1
    /\ \E e \in DOMAIN employees :
          /\ employees[e] = "A"
          /\ \E r \in employee_skills :
                r.employee_id = e /\ ~r.is_interested /\ r.rating = "Beginner"
          /\ \E r \in employee_skills :
                r.employee_id = e /\ r.is_interested /\ r.rating = "Advanced"

(***************************************************************************)
(* The rating rows with their history: first_rating records, for every     *)
(* row, the first non-null rating a request wrote to it.                   *)
(***************************************************************************)
RecordFirst ==
    first_rating' =
        [id \in {r.id : r \in employee_skills'} |->
            IF id \in DOMAIN first_rating /\ first_rating[id] # Null
            THEN first_rating[id]
            ELSE (CHOOSE r \in employee_skills' : r.id = id).rating]

NextFirst ==
    \/ Register /\ RecordFirst
    \/ CreateMySkill /\ RecordFirst
    \/ CreateEmployeeSkill /\ RecordFirst
    \/ UpdateMySkill /\ RecordFirst
    \/ UpdateEmployeeSkill /\ RecordFirst

SpecFirst == InitSkills /\ [][NextFirst]_vars

\* C7 (as claimed): a row whose rating is, or has ever been, non-null has a
\* non-null initial_rating equal to the first non-null rating written to it.
C7_InitialIsFirstRating ==
    \A r \in employee_skills :
        (r.rating # Null \/ first_rating[r.id] # Null) =>
            /\ r.initial_rating # Null
            /\ r.initial_rating = first_rating[r.id]

(***************************************************************************)
(* api/learning.py: course assignments                                     *)
(***************************************************************************)
\* Course.skill_id is nullable; skill ids start at 1 and 0 stands for NULL
NoSkill == 0

\* CourseStatusEnum, by member name
CourseStatusEnum == {"NOT_STARTED", "IN_PROGRESS", "COMPLETED"}

\* rating_to_level with Expert on the level of Advanced.
rating_to_level_capped(rating) ==
    IF rating = Null THEN 0
    ELSE CASE rating = "Beginner" -> 1
           [] rating = "Developing" -> 2
           [] rating = "Intermediate" -> 3
           [] rating = "Advanced" -> 4
           [] rating = "Expert" -> 4
           [] OTHER -> 0

\* rating_to_level: 0 for None, rating_levels.get(rating, 0) otherwise
rating_to_level(rating) ==
    IF rating = Null THEN 0
    ELSE CASE rating = "Beginner" -> 1
           [] rating = "Developing" -> 2
           [] rating = "Intermediate" -> 3
           [] rating = "Advanced" -> 4
           [] rating = "Expert" -> 5
           [] OTHER -> 0

\* The default of every band taken as Intermediate.
BAND_DEFAULT_RATINGS_flat(band) == "Intermediate"

\* BAND_DEFAULT_RATINGS.get(band, RatingEnum.INTERMEDIATE)
BAND_DEFAULT_RATINGS(band) ==
    CASE band = "A" -> "Beginner"
      [] band = "B" -> "Developing"
      [] band = "C" -> "Intermediate"
      [] band = "L1" -> "Advanced"
      [] band = "L2" -> "Expert"
      [] OTHER -> "Intermediate"

\* The existence check with its two ids swapped.
ExistingAssignment_swapped(rows, employee_id, course_id) ==
    {a \in rows : a.employee_id = course_id /\ a.course_id = employee_id}

\* db.query(CourseAssignment).filter(employee_id ==, course_id ==).first(),
\* as the set of matching rows ({} for None).  The session is created with
\* autoflush=False (db/database.py), so the query sees the committed rows
\* only, never the rows db.add() has queued in this request.
ExistingAssignment(rows, employee_id, course_id) ==
    {a \in rows : a.employee_id = employee_id /\ a.course_id = course_id}

\* CourseAssignment(course_id=, employee_id=, status=NOT_STARTED): the row a
\* handler queues; started_at and completed_at are not passed
NewAssignment(id, employee_id, course_id) ==
    [id |-> id, employee_id |-> employee_id, course_id |-> course_id,
     status |-> "NOT_STARTED", started_at |-> Null, completed_at |-> Null]

\* db.commit() of the queued CourseAssignment rows.  The table is declared
\* outside the files at hand; it has no unique constraint on
\* (employee_id, course_id), so every queued row is inserted.
CommitAssignments(rows, queued) == rows \cup queued

\* VisitedCourses with the two comparisons taken as <=: a level equal to
\* the requirement counted as a deficiency.
VisitedCourses_nonstrict(band, reqs, rows, crs, employee_id) ==
    LET role_requirements_q == {q \in reqs : q.band = band}
        explicit_skill_ids == {q.skill_id : q \in role_requirements_q}
        employee_skills_q == {r \in rows : r.employee_id = employee_id
                                           /\ r.is_interested = FALSE}
        default_required_rating == BAND_DEFAULT_RATINGS(band)
        current(skill_id) ==
            LET employee_skill == {r \in rows :
                                     /\ r.employee_id = employee_id
                                     /\ r.skill_id = skill_id}
            IN  IF employee_skill = {} THEN 0
                ELSE rating_to_level(
                        (CHOOSE r \in employee_skill : TRUE).rating)
        explicit == {c \in crs : \E q \in role_requirements_q :
                        /\ c.skill_id = q.skill_id
                        /\ current(q.skill_id)
                               <= rating_to_level(q.required_rating)}
        default == {c \in crs : \E r \in employee_skills_q :
                        /\ r.skill_id \notin explicit_skill_ids
                        /\ c.skill_id = r.skill_id
                        /\ rating_to_level(r.rating)
                               <= rating_to_level(default_required_rating)}
    IN  {c.id : c \in explicit \cup default}

\* VisitedCourses with a second loop that does not skip the skills of the
\* explicit requirements.
VisitedCourses_default_too(band, reqs, rows, crs, employee_id) ==
    LET role_requirements_q == {q \in reqs : q.band = band}
        employee_skills_q == {r \in rows : r.employee_id = employee_id
                                           /\ r.is_interested = FALSE}
        default_required_rating == BAND_DEFAULT_RATINGS(band)
        current(skill_id) ==
            LET employee_skill == {r \in rows :
                                     /\ r.employee_id = employee_id
                                     /\ r.skill_id = skill_id}
            IN  IF employee_skill = {} THEN 0
                ELSE rating_to_level(
                        (CHOOSE r \in employee_skill : TRUE).rating)
        explicit == {c \in crs : \E q \in role_requirements_q :
                        /\ c.skill_id = q.skill_id
                        /\ current(q.skill_id)
                               < rating_to_level(q.required_rating)}
        default == {c \in crs : \E r \in employee_skills_q :
                        /\ c.skill_id = r.skill_id
                        /\ rating_to_level(r.rating)
                               < rating_to_level(default_required_rating)}
    IN  {c.id : c \in explicit \cup default}

\* the courses one employee is visited for by the two loops of auto-assign:
\* the explicit requirements of the band, then the non-interested rows whose
\* skill has no explicit requirement.  (band, skill) is unique among the
\* requirements and (employee, skill) among the rows, so a course is visited
\* at most once per employee.
VisitedCourses(band, reqs, rows, crs, employee_id) ==
    LET role_requirements_q == {q \in reqs : q.band = band}
        explicit_skill_ids == {q.skill_id : q \in role_requirements_q}
        employee_skills_q == {r \in rows : r.employee_id = employee_id
                                           /\ r.is_interested = FALSE}
        default_required_rating == BAND_DEFAULT_RATINGS(band)
        current(skill_id) ==
            LET employee_skill == {r \in rows :
                                     /\ r.employee_id = employee_id
                                     /\ r.skill_id = skill_id}
            IN  IF employee_skill = {} THEN 0
                ELSE rating_to_level(
                        (CHOOSE r \in employee_skill : TRUE).rating)
        explicit == {c \in crs : \E q \in role_requirements_q :
                        /\ c.skill_id = q.skill_id
                        /\ current(q.skill_id)
                               < rating_to_level(q.required_rating)}
        default == {c \in crs : \E r \in employee_skills_q :
                        /\ r.skill_id \notin explicit_skill_ids
                        /\ c.skill_id = r.skill_id
                        /\ rating_to_level(r.rating)
                               < rating_to_level(default_required_rating)}
    IN  {c.id : c \in explicit \cup default}

\* AutoAssignEmployee without the existence check: a row is queued for
\* every visited course.
AutoAssignEmployee_no_check(band, reqs, rows, crs, assignments, employee_id, first_id) ==
    LET visited == VisitedCourses(band, reqs, rows, crs, employee_id)
    IN  [queued |-> {[id |-> first_id + Cardinality({d \in visited : d < c}),
                      employee_id |-> employee_id, course_id |-> c,
                      status |-> "NOT_STARTED", started_at |-> Null,
                      completed_at |-> Null] : c \in visited},
         assigned |-> Cardinality(visited),
         skipped |-> 0]

\* the body both auto-assign handlers run for one employee with a band: the
\* rows queued and the two counters.  Ids are handed out from first_id on, in
\* the order of the course ids.
AutoAssignEmployee(band, reqs, rows, crs, assignments, employee_id, first_id) ==
    LET visited == VisitedCourses(band, reqs, rows, crs, employee_id)
        fresh == {c \in visited :
                     ExistingAssignment(assignments, employee_id, c) = {}}
    IN  [queued |-> {NewAssignment(
                        first_id + Cardinality({d \in fresh : d < c}),
                        employee_id, c) : c \in fresh},
         assigned |-> Cardinality(fresh),
         skipped |-> Cardinality(visited \ fresh)]

\* the autoincrement primary key of course_assignments
NextAssignmentId(assignments) == Cardinality(assignments) + 1

LearnUnchanged == UNCHANGED <<employees, employee_skills, role_requirements,
                              courses, average, first_rating,
                   in_flight>>

\* AutoAssignAll visiting the employees with no band too.
RECURSIVE AutoAssignAll_no_skip(_, _, _, _, _, _, _)
AutoAssignAll_no_skip(todo, emps, reqs, rows, crs, assignments, acc) ==
    IF todo = {} THEN acc
    ELSE LET e == CHOOSE x \in todo : \A y \in todo : x <= y
             one == AutoAssignEmployee(emps[e], reqs, rows, crs,
                        assignments, e,
                        NextAssignmentId(assignments)
                            + Cardinality(acc.queued))
         IN  AutoAssignAll_no_skip(todo \ {e}, emps, reqs, rows, crs,
                assignments,
                [queued |-> acc.queued \cup one.queued,
                 assigned |-> acc.assigned + one.assigned,
                 skipped |-> acc.skipped + one.skipped])

\* POST /api/learning/auto-assign-by-skill-gap: for employee in employees,
\* skipping the employees with no band
RECURSIVE AutoAssignAll(_, _, _, _, _, _, _)
AutoAssignAll(todo, emps, reqs, rows, crs, assignments, acc) ==
    IF todo = {} THEN acc
    ELSE LET e == CHOOSE x \in todo : \A y \in todo : x <= y
             one == IF emps[e] = Null
                    THEN [queued |-> {}, assigned |-> 0, skipped |-> 0]
                    ELSE AutoAssignEmployee(emps[e], reqs, rows, crs,
                            assignments, e,
                            NextAssignmentId(assignments)
                                + Cardinality(acc.queued))
         IN  AutoAssignAll(todo \ {e}, emps, reqs, rows, crs, assignments,
                [queued |-> acc.queued \cup one.queued,
                 assigned |-> acc.assigned + one.assigned,
                 skipped |-> acc.skipped + one.skipped])

auto_assign_courses_by_skill_gap ==
    LET out == AutoAssignAll(DOMAIN employees, employees, role_requirements,
                   employee_skills, courses, course_assignments,
                   [queued |-> {}, assigned |-> 0, skipped |-> 0])
    IN  /\ course_assignments' = CommitAssignments(course_assignments, out.queued)
        /\ response' = [status |-> 200, op |-> "auto_assign",
                        target |-> 0,
                        assigned |-> out.assigned, skipped |-> out.skipped]
        /\ LearnUnchanged

\* auto_assign_courses_for_employee without the check of the band.
auto_assign_courses_for_employee_unchecked(employee_id) ==
    IF employee_id \notin DOMAIN employees
    THEN /\ response' = [status |-> 404]
         /\ UNCHANGED course_assignments
         /\ LearnUnchanged
    ELSE LET out == AutoAssignEmployee(employees[employee_id],
                        role_requirements, employee_skills, courses,
                        course_assignments, employee_id,
                        Cardinality(course_assignments) + 1)
         IN  /\ course_assignments' = course_assignments \cup out.queued
             /\ response' = [status |-> 200, op |-> "auto_assign",
                             target |-> employee_id,
                             assigned |-> out.assigned,
                             skipped |-> out.skipped]
             /\ LearnUnchanged

\* POST /api/learning/auto-assign-for-employee/{employee_id}
auto_assign_courses_for_employee(employee_id) ==
    IF employee_id \notin DOMAIN employees
    THEN /\ response' = [status |-> 404]
         /\ UNCHANGED course_assignments
         /\ LearnUnchanged
    ELSE IF employees[employee_id] = Null
    THEN /\ response' = [status |-> 400]
         /\ UNCHANGED course_assignments
         /\ LearnUnchanged
    ELSE LET out == AutoAssignEmployee(employees[employee_id],
                        role_requirements, employee_skills, courses,
                        course_assignments, employee_id,
                        NextAssignmentId(course_assignments))
         IN  /\ course_assignments' =
                    CommitAssignments(course_assignments, out.queued)
             /\ response' = [status |-> 200, op |-> "auto_assign",
                             target |-> employee_id,
                             assigned |-> out.assigned,
                             skipped |-> out.skipped]
             /\ LearnUnchanged

\* POST /api/learning/assignments: the loop over assignment.employee_ids; a
\* position queues a row when the employee exists and the committed table
\* has no row of the pair
assign_course(course_id, employee_ids) ==
    IF \A c \in courses : c.id # course_id
    THEN /\ response' = [status |-> 404]
         /\ UNCHANGED course_assignments
         /\ LearnUnchanged
    ELSE LET adding == {i \in DOMAIN employee_ids :
                          /\ employee_ids[i] \in DOMAIN employees
                          /\ ExistingAssignment(course_assignments,
                                 employee_ids[i], course_id) = {}}
             queued == {NewAssignment(
                           Cardinality(course_assignments)
                               + Cardinality({j \in adding : j <= i}),
                           employee_ids[i], course_id) : i \in adding}
         IN  /\ course_assignments' =
                    CommitAssignments(course_assignments, queued)
             /\ response' = [status |-> 200, op |-> "assign_course",
                             assigned |-> Cardinality(adding),
                             skipped |-> Len(employee_ids)
                                             - Cardinality(adding)]
             /\ LearnUnchanged

\* the assignment a learner request addresses: the row with the id that
\* belongs to the employee of the current user, as a set ({} for None)
OwnAssignment(assignment_id, employee_id) ==
    {a \in course_assignments : a.id = assignment_id
                                /\ a.employee_id = employee_id}

WriteAssignment(old, new) ==
    course_assignments' = (course_assignments \ {old}) \cup {new}

\* PATCH /api/learning/assignments/{assignment_id}/start by the user linked to
\* employee_id
start_course(assignment_id, employee_id) ==
    LET found == OwnAssignment(assignment_id, employee_id)
        assignment == CHOOSE a \in found : TRUE
    IN  IF employee_id \notin DOMAIN employees \/ found = {}
        THEN /\ response' = [status |-> 404]
             /\ UNCHANGED course_assignments
             /\ LearnUnchanged
        ELSE /\ IF assignment.status = "NOT_STARTED"
                THEN WriteAssignment(assignment,
                        [assignment EXCEPT !.status = "IN_PROGRESS",
                                           !.started_at = "utcnow"])
                ELSE UNCHANGED course_assignments
             /\ response' = [status |-> 200, op |-> "start_course"]
             /\ LearnUnchanged

\* complete_course leaving started_at as it finds it.
complete_course_no_backfill(assignment_id, employee_id) ==
    LET found == OwnAssignment(assignment_id, employee_id)
        assignment == CHOOSE a \in found : TRUE
    IN  IF employee_id \notin DOMAIN employees \/ found = {}
        THEN /\ response' = [status |-> 404]
             /\ UNCHANGED course_assignments
             /\ LearnUnchanged
        ELSE /\ WriteAssignment(assignment,
                    [assignment EXCEPT !.status = "COMPLETED",
                                       !.completed_at = "utcnow"])
             /\ response' = [status |-> 200, op |-> "complete_course"]
             /\ LearnUnchanged

\* PATCH /api/learning/assignments/{assignment_id}/complete
complete_course(assignment_id, employee_id) ==
    LET found == OwnAssignment(assignment_id, employee_id)
        assignment == CHOOSE a \in found : TRUE
    IN  IF employee_id \notin DOMAIN employees \/ found = {}
        THEN /\ response' = [status |-> 404]
             /\ UNCHANGED course_assignments
             /\ LearnUnchanged
        ELSE /\ WriteAssignment(assignment,
                    [assignment EXCEPT !.status = "COMPLETED",
                                       !.completed_at = "utcnow",
                                       !.started_at =
                                           IF @ = Null THEN "utcnow" ELSE @])
             /\ response' = [status |-> 200, op |-> "complete_course"]
             /\ LearnUnchanged

\* PATCH /api/learning/assignments/{assignment_id}: update.status is an
\* Optional[CourseStatusEnum], Null when the payload leaves it out
update_assignment(assignment_id, employee_id, status) ==
    LET found == OwnAssignment(assignment_id, employee_id)
        assignment == CHOOSE a \in found : TRUE
    IN  IF employee_id \notin DOMAIN employees \/ found = {}
        THEN /\ response' = [status |-> 404]
             /\ UNCHANGED course_assignments
             /\ LearnUnchanged
        ELSE /\ IF status # Null
                THEN WriteAssignment(assignment,
                        [assignment EXCEPT !.status = status])
                ELSE UNCHANGED course_assignments
             /\ response' = [status |-> 200, op |-> "update_assignment"]
             /\ LearnUnchanged

(***************************************************************************)
(* Auto-assignment and manual assignment over a fixed catalogue.  The      *)
(* employees table holds employee 1 (the other ids of EmployeeIds name no  *)
(* employee); its band, its rating rows, the requirements and the course   *)
(* tags are drawn from the seeds below and stay as drawn.                  *)
(***************************************************************************)
LearnBands == {Null, "A", "C"}

\* what the employee holds for one skill: no row, a rated row, an interested
\* row (with or without the rating an update left on it), a row an update
\* turned non-interested without rating it
SeedCells == {"absent", "low", "high", "interested", "interested_rated",
              "unrated"}

SeedRow(id, skill_id, cell) ==
    [id |-> id, employee_id |-> 1, skill_id |-> skill_id,
     rating |-> CASE cell = "low" -> "Beginner"
                  [] cell = "high" -> "Advanced"
                  [] cell = "interested_rated" -> "Advanced"
                  [] OTHER -> Null,
     initial_rating |-> CASE cell = "low" -> "Beginner"
                          [] cell = "high" -> "Advanced"
                          [] OTHER -> Null,
     is_interested |-> cell \in {"interested", "interested_rated"}]

SeedRequirements ==
    {[id |-> 1, band |-> b, skill_id |-> s, required_rating |-> r,
      is_required |-> TRUE] :
        b \in {"A", "C"}, s \in SkillIds, r \in {"Developing", "Expert"}}

InitLearn ==
    /\ \E b \in LearnBands : employees = [e \in {1} |-> b]
    /\ \E cell \in [SkillIds -> SeedCells] :
          employee_skills =
              {SeedRow(Cardinality({t \in SkillIds :
                                      t <= s /\ cell[t] # "absent"}),
                       s, cell[s]) :
                  s \in {t \in SkillIds : cell[t] # "absent"}}
    /\ \/ role_requirements = {}
       \/ \E q \in SeedRequirements : role_requirements = {q}
    /\ \E tag \in [CourseIds -> SkillIds \cup {NoSkill}] :
          /\ tag[1] = 1
          /\ courses = {[id |-> c, skill_id |-> tag[c]] : c \in CourseIds}
    /\ course_assignments = {}
    /\ average = Null
    /\ response = [status |-> 0]
    /\ first_rating = << >>
    /\ in_flight = << >>

\* employee_ids: the lists of 1..MaxIds ids
EmployeeIdLists ==
    UNION {[1..n -> EmployeeIds] : n \in 1..MaxIds}

AssignCourse ==
    \E c \in CourseIds, ids \in EmployeeIdLists : assign_course(c, ids)

AutoAssignBySkillGap == auto_assign_courses_by_skill_gap

AutoAssignForEmployee ==
    \E e \in EmployeeIds : auto_assign_courses_for_employee(e)

NextLearn ==
    \/ AssignCourse
    \/ AutoAssignBySkillGap
    \/ AutoAssignForEmployee

SpecLearn == InitLearn /\ [][NextLearn]_vars

(***************************************************************************)
(* The life of an assignment: every employee of EmployeeIds exists, the    *)
(* courses table holds course 1 (the other ids name no course), rows are   *)
(* created by assign_course and moved by their owners.                     *)
(***************************************************************************)
InitStatus ==
    /\ employees = [e \in EmployeeIds |-> Null]
    /\ employee_skills = {}
    /\ role_requirements = {}
    /\ courses = {[id |-> 1, skill_id |-> NoSkill]}
    /\ course_assignments = {}
    /\ average = Null
    /\ response = [status |-> 0]
    /\ first_rating = << >>
    /\ in_flight = << >>

\* the ids an assignment can get: MaxIds rows per employee and course
AssignmentIds == 1..(MaxEmployees * MaxIds)

StartCourse ==
    \E id \in AssignmentIds, e \in EmployeeIds : start_course(id, e)

CompleteCourse ==
    \E id \in AssignmentIds, e \in EmployeeIds : complete_course(id, e)

UpdateAssignment ==
    \E id \in AssignmentIds, e \in EmployeeIds,
       st \in CourseStatusEnum \cup {Null} : update_assignment(id, e, st)

NextStatus ==
    \/ AssignCourse
    \/ StartCourse
    \/ CompleteCourse
    \/ UpdateAssignment

SpecStatus == InitStatus /\ [][NextStatus]_vars

\* C2: auto-assignment is idempotent: an auto-assign request that follows an
\* auto-assign request for the same target (or for all employees), with the
\* ratings, bands, requirements and courses as they were, reports
\* assigned = 0 and leaves the CourseAssignment rows as they were.
C2_AutoAssignIdempotent ==
    [][(/\ "op" \in DOMAIN response
        /\ response.op = "auto_assign"
        /\ "op" \in DOMAIN response'
        /\ response'.op = "auto_assign"
        /\ response.target \in {0, response'.target}
        /\ <<employees, employee_skills, role_requirements, courses>>'
               = <<employees, employee_skills, role_requirements, courses>>)
       => /\ response'.assigned = 0
          /\ course_assignments' = course_assignments]_vars

\* An auto-assign run that created nothing and skipped two courses, both of
\* them assigned to the employee with no request but auto-assign able to
\* assign both (the two courses carry different skills, one with an explicit
\* requirement, one under the band default).
C2_Witness ==
    /\ "op" \in DOMAIN response
    /\ response.op = "auto_assign"
    /\ response.assigned = 0
    /\ response.skipped = 2
    /\ Cardinality(course_assignments) = 2
    /\ \E c1, c2 \in courses :
          /\ c1.skill_id # c2.skill_id
          /\ \E q \in role_requirements :
                q.band = employees[1] /\ q.skill_id = c1.skill_id
          /\ \A q \in role_requirements : q.skill_id # c2.skill_id

\* C3 (as claimed): there is at most one CourseAssignment row per
\* (employee, course) pair, whatever requests were served.
C3_OneAssignmentPerPair ==
    \A a1, a2 \in course_assignments :
        (a1.employee_id = a2.employee_id /\ a1.course_id = a2.course_id)
            => a1 = a2

\* the order NotStarted < InProgress < Completed
StatusRank(status) ==
    CASE status = "NOT_STARTED" -> 1
      [] status = "IN_PROGRESS" -> 2
      [] status = "COMPLETED" -> 3

\* C4 (as claimed): the status of an assignment only moves forward along
\* NotStarted -> InProgress -> Completed; a Completed assignment stays
\* Completed under start_course, complete_course and update_assignment.
C4_StatusMovesForward ==
    [][\A a \in course_assignments :
          \E b \in course_assignments' :
             /\ b.id = a.id
             /\ StatusRank(b.status) >= StatusRank(a.status)]_vars

\* The rating rows with the interested rows of employee e rewritten: an
\* interested row may disappear or carry any rating, and a skill the
\* employee holds no row for may get an interested row.
InterestedVariants(rows, e) ==
    LET kept == {r \in rows : ~(r.employee_id = e /\ r.is_interested)}
        free == {s \in SkillIds :
                    \A r \in kept : ~(r.employee_id = e /\ r.skill_id = s)}
    IN  {kept \cup {[id |-> Cardinality(rows) + s, employee_id |-> e,
                     skill_id |-> s, rating |-> f[s],
                     initial_rating |-> Null, is_interested |-> TRUE] :
                        s \in {t \in free : f[t] # "absent"}} :
            f \in [free -> RatingEnum \cup {Null, "absent"}]}

\* C5 (as claimed, for the band and the two auto-assign operations): the
\* interested rows never influence the results: the band of the employee
\* and the assignments an auto-assign run creates are the same in every
\* database that differs from the current one only in the rating stored on,
\* or the presence of, the employee's interested rows.
C5_InterestedRowsIgnored ==
    \A e \in DOMAIN employees :
        \A variant \in InterestedVariants(employee_skills, e) :
            /\ calculate_employee_band(variant, e)
                   = calculate_employee_band(employee_skills, e)
            /\ employees[e] # Null =>
                  AutoAssignEmployee(employees[e], role_requirements, variant,
                      courses, course_assignments, e, 1)
                  = AutoAssignEmployee(employees[e], role_requirements,
                      employee_skills, courses, course_assignments, e, 1)
            /\ AutoAssignAll(DOMAIN employees, employees, role_requirements,
                   variant, courses, course_assignments,
                   [queued |-> {}, assigned |-> 0, skipped |-> 0])
               = AutoAssignAll(DOMAIN employees, employees,
                   role_requirements, employee_skills, courses,
                   course_assignments,
                   [queued |-> {}, assigned |-> 0, skipped |-> 0])


(***************************************************************************)
(* api/bands.py: the band analysis of one employee                         *)
(***************************************************************************)
\* round(average_rating, 2) in hundredths, average_rating = total / count
\* (a tie at the third decimal needs a count that is a multiple of 8)
RoundAverage(total, count) == (200 * total + count) \div (2 * count)

\* SkillGap with the gap taken as required - current.
SkillGap_reversed(emp_skill, requirement_map) ==
    LET requirement == {q \in requirement_map :
                            q.skill_id = emp_skill.skill_id}
        current_rating_num ==
            IF emp_skill.rating # Null
            THEN RATING_TO_NUMBER[emp_skill.rating] ELSE 0
        required_rating_num ==
            IF requirement # {}
            THEN RATING_TO_NUMBER[
                    (CHOOSE q \in requirement : TRUE).required_rating]
            ELSE 3
    IN  [skill_id |-> emp_skill.skill_id,
         current_rating_number |-> current_rating_num,
         required_rating_number |-> required_rating_num,
         required_rating_text |->
            IF requirement # {}
            THEN (CHOOSE q \in requirement : TRUE).required_rating
            ELSE "Intermediate",
         gap |-> required_rating_num - current_rating_num,
         is_required |->
            IF requirement # {}
            THEN (CHOOSE q \in requirement : TRUE).is_required
            ELSE TRUE]

\* the branch of the loop over employee_skills for one row: the SkillGap
\* record, required against the requirement of requirement_map when there
\* is one and against Intermediate (3) when there is none
SkillGap(emp_skill, requirement_map) ==
    LET requirement == {q \in requirement_map :
                            q.skill_id = emp_skill.skill_id}
        current_rating_num ==
            IF emp_skill.rating # Null
            THEN RATING_TO_NUMBER[emp_skill.rating] ELSE 0
        required_rating_num ==
            IF requirement # {}
            THEN RATING_TO_NUMBER[
                    (CHOOSE q \in requirement : TRUE).required_rating]
            ELSE 3
    IN  [skill_id |-> emp_skill.skill_id,
         current_rating_number |-> current_rating_num,
         required_rating_number |-> required_rating_num,
         required_rating_text |->
            IF requirement # {}
            THEN (CHOOSE q \in requirement : TRUE).required_rating
            ELSE "Intermediate",
         gap |-> current_rating_num - required_rating_num,
         is_required |->
            IF requirement # {}
            THEN (CHOOSE q \in requirement : TRUE).is_required
            ELSE TRUE]

\* get_employee_band_analysis with a gap record also for every skill the
\* band requires and the employee has not rated, at level 0.
get_employee_band_analysis_with_required(rows, reqs, employee_id) ==
    LET employee_skills_q ==
            {r \in rows : /\ r.employee_id = employee_id
                          /\ r.is_interested = FALSE
                          /\ r.rating # Null}
        total_rating == SumRatings(employee_skills_q)
        count == Cardinality(employee_skills_q)
        band == calculate_band(total_rating, count)
        requirement_map == {q \in reqs : q.band = band}
        unrated == {q \in requirement_map :
                       \A r \in employee_skills_q : r.skill_id # q.skill_id}
        skill_gaps ==
            {SkillGap(r, requirement_map) : r \in employee_skills_q}
            \cup {[skill_id |-> q.skill_id,
                   current_rating_number |-> 0,
                   required_rating_number |->
                       RATING_TO_NUMBER[q.required_rating],
                   required_rating_text |-> q.required_rating,
                   gap |-> 0 - RATING_TO_NUMBER[q.required_rating],
                   is_required |-> q.is_required] : q \in unrated}
    IN  IF employee_skills_q = {}
        THEN [band |-> "A", average_rating |-> 100, total_skills |-> 0,
              skills_above_requirement |-> 0, skills_at_requirement |-> 0,
              skills_below_requirement |-> 0, skill_gaps |-> {}]
        ELSE [band |-> band,
              average_rating |-> RoundAverage(total_rating, count),
              total_skills |-> Cardinality(skill_gaps),
              skills_above_requirement |->
                  Cardinality({g \in skill_gaps : g.gap > 0}),
              skills_at_requirement |->
                  Cardinality({g \in skill_gaps : g.gap = 0}),
              skills_below_requirement |->
                  Cardinality({g \in skill_gaps : g.gap < 0}),
              skill_gaps |-> skill_gaps]

\* get_employee_band_analysis with the three counters swapped round: a gap
\* of zero counted as above.
get_employee_band_analysis_miscounted(rows, reqs, employee_id) ==
    LET employee_skills_q ==
            {r \in rows : /\ r.employee_id = employee_id
                          /\ r.is_interested = FALSE
                          /\ r.rating # Null}
        total_rating == SumRatings(employee_skills_q)
        count == Cardinality(employee_skills_q)
        band == calculate_band(total_rating, count)
        skill_gaps == {SkillGap(r, {q \in reqs : q.band = band}) :
                          r \in employee_skills_q}
    IN  IF employee_skills_q = {}
        THEN [band |-> "A", average_rating |-> 100, total_skills |-> 0,
              skills_above_requirement |-> 0, skills_at_requirement |-> 0,
              skills_below_requirement |-> 0, skill_gaps |-> {}]
        ELSE [band |-> band,
              average_rating |-> RoundAverage(total_rating, count),
              total_skills |-> count,
              skills_above_requirement |->
                  Cardinality({g \in skill_gaps : g.gap >= 0}),
              skills_at_requirement |-> 0,
              skills_below_requirement |->
                  Cardinality({g \in skill_gaps : g.gap < 0}),
              skill_gaps |-> skill_gaps]

\* get_employee_band_analysis with no default analysis: an employee without
\* a qualifying row is sent through the average as well.
get_employee_band_analysis_no_default(rows, reqs, employee_id) ==
    LET employee_skills_q ==
            {r \in rows : /\ r.employee_id = employee_id
                          /\ r.is_interested = FALSE}
        rated == {r \in employee_skills_q : r.rating # Null}
        total_rating == SumRatings(rated)
        count == Cardinality(rated)
        band == IF count > 0 THEN calculate_band(total_rating, count)
                ELSE calculate_band(1, 1)
        skill_gaps == {SkillGap(r, {q \in reqs : q.band = band}) :
                          r \in employee_skills_q}
    IN  [band |-> band,
         average_rating |-> IF count > 0
                            THEN RoundAverage(total_rating, count) ELSE 100,
         total_skills |-> Cardinality(employee_skills_q),
         skills_above_requirement |->
             Cardinality({g \in skill_gaps : g.gap > 0}),
         skills_at_requirement |->
             Cardinality({g \in skill_gaps : g.gap = 0}),
         skills_below_requirement |->
             Cardinality({g \in skill_gaps : g.gap < 0}),
         skill_gaps |-> skill_gaps]

\* get_employee_band_analysis reporting the stored band of the employee
\* when there is one.
get_employee_band_analysis_stored_band(rows, reqs, employee_id) ==
    LET employee_skills_q ==
            {r \in rows : /\ r.employee_id = employee_id
                          /\ r.is_interested = FALSE
                          /\ r.rating # Null}
        total_rating == SumRatings(employee_skills_q)
        count == Cardinality(employee_skills_q)
        stored == IF employee_id \in DOMAIN employees
                  THEN employees[employee_id] ELSE Null
        band == IF stored # Null THEN stored
                ELSE calculate_band(total_rating, count)
        requirement_map == {q \in reqs : q.band = band}
        skill_gaps == {SkillGap(r, requirement_map) : r \in employee_skills_q}
    IN  IF employee_skills_q = {}
        THEN [band |-> "A", average_rating |-> 100, total_skills |-> 0,
              skills_above_requirement |-> 0, skills_at_requirement |-> 0,
              skills_below_requirement |-> 0, skill_gaps |-> {}]
        ELSE [band |-> band,
              average_rating |-> RoundAverage(total_rating, count),
              total_skills |-> count,
              skills_above_requirement |->
                  Cardinality({g \in skill_gaps : g.gap > 0}),
              skills_at_requirement |->
                  Cardinality({g \in skill_gaps : g.gap = 0}),
              skills_below_requirement |->
                  Cardinality({g \in skill_gaps : g.gap < 0}),
              skill_gaps |-> skill_gaps]

\* get_employee_band_analysis: the rows with is_interested false and a
\* rating; the default analysis when there is none; otherwise the band of
\* the average (computed, not the stored one), the requirements of that
\* band and one gap record per row.  average_rating is in hundredths.
get_employee_band_analysis(rows, reqs, employee_id) ==
    LET employee_skills_q ==
            {r \in rows : /\ r.employee_id = employee_id
                          /\ r.is_interested = FALSE
                          /\ r.rating # Null}
        total_rating == SumRatings(employee_skills_q)
        count == Cardinality(employee_skills_q)
        band == calculate_band(total_rating, count)
        requirement_map == {q \in reqs : q.band = band}
        skill_gaps == {SkillGap(r, requirement_map) : r \in employee_skills_q}
    IN  IF employee_skills_q = {}
        THEN [band |-> "A", average_rating |-> 100, total_skills |-> 0,
              skills_above_requirement |-> 0, skills_at_requirement |-> 0,
              skills_below_requirement |-> 0, skill_gaps |-> {}]
        ELSE [band |-> band,
              average_rating |-> RoundAverage(total_rating, count),
              total_skills |-> count,
              skills_above_requirement |->
                  Cardinality({g \in skill_gaps : g.gap > 0}),
              skills_at_requirement |->
                  Cardinality({g \in skill_gaps : g.gap = 0}),
              skills_below_requirement |->
                  Cardinality({g \in skill_gaps : g.gap < 0}),
              skill_gaps |-> skill_gaps]

\* GET /api/bands/employee/{employee_id}/analysis: 404 when there is no such
\* employee, the analysis otherwise; nothing is written
get_employee_band_analysis_endpoint(employee_id) ==
    /\ response' =
          IF get_employee_by_id(employees, employee_id) = {}
          THEN [status |-> 404]
          ELSE [status |-> 200, op |-> "band_analysis",
                target |-> employee_id,
                analysis |-> get_employee_band_analysis(employee_skills,
                                 role_requirements, employee_id)]
    /\ UNCHANGED <<employees, employee_skills, role_requirements, courses,
                   course_assignments, average, first_rating,
                   in_flight>>


\* EmployeeGaps listing every course of the skill as available.
EmployeeGaps_all_available(band, reqs, rows, crs, assignments, employee_id) ==
    LET role_requirements_q == {q \in reqs : q.band = band}
        explicit_skill_ids == {q.skill_id : q \in role_requirements_q}
        employee_skills_q == {r \in rows : r.employee_id = employee_id
                                           /\ r.is_interested = FALSE}
        default_required_rating == BAND_DEFAULT_RATINGS(band)
        employee_skill(skill_id) ==
            {r \in rows : r.employee_id = employee_id
                          /\ r.skill_id = skill_id}
        rating_of(skill_id) ==
            IF employee_skill(skill_id) = {} THEN Null
            ELSE (CHOOSE r \in employee_skill(skill_id) : TRUE).rating
        tagged(skill_id) == {c.id : c \in {d \in crs : d.skill_id = skill_id}}
        assigned(skill_id) ==
            {c \in tagged(skill_id) :
                ExistingAssignment(assignments, employee_id, c) # {}}
        record(skill_id, current, required) ==
            [skill_id |-> skill_id,
             current_level |-> current,
             required_level |-> required,
             assigned_courses |-> assigned(skill_id),
             available_courses |-> tagged(skill_id)]
    IN  {record(q.skill_id, rating_of(q.skill_id), q.required_rating) :
            q \in {x \in role_requirements_q :
                     rating_to_level(rating_of(x.skill_id))
                         < rating_to_level(x.required_rating)}}
        \cup
        {record(r.skill_id, r.rating, default_required_rating) :
            r \in {x \in employee_skills_q :
                     /\ x.skill_id \notin explicit_skill_ids
                     /\ rating_to_level(x.rating)
                            < rating_to_level(default_required_rating)}}

(***************************************************************************)
(* api/learning.py: the skill-gap report                                   *)
(***************************************************************************)
\* the employee_gaps of one employee with a band: one record per explicit
\* requirement of the band the employee is below, then one per
\* non-interested row of a skill without explicit requirement that is below
\* the default of the band.  current_level and required_level are the
\* rating texts ("None" for no rating); the courses are given by id.
EmployeeGaps(band, reqs, rows, crs, assignments, employee_id) ==
    LET role_requirements_q == {q \in reqs : q.band = band}
        explicit_skill_ids == {q.skill_id : q \in role_requirements_q}
        employee_skills_q == {r \in rows : r.employee_id = employee_id
                                           /\ r.is_interested = FALSE}
        default_required_rating == BAND_DEFAULT_RATINGS(band)
        employee_skill(skill_id) ==
            {r \in rows : r.employee_id = employee_id
                          /\ r.skill_id = skill_id}
        rating_of(skill_id) ==
            IF employee_skill(skill_id) = {} THEN Null
            ELSE (CHOOSE r \in employee_skill(skill_id) : TRUE).rating
        tagged(skill_id) == {c.id : c \in {d \in crs : d.skill_id = skill_id}}
        assigned(skill_id) ==
            {c \in tagged(skill_id) :
                ExistingAssignment(assignments, employee_id, c) # {}}
        record(skill_id, current, required) ==
            [skill_id |-> skill_id,
             current_level |-> current,
             required_level |-> required,
             assigned_courses |-> assigned(skill_id),
             available_courses |-> tagged(skill_id) \ assigned(skill_id)]
    IN  {record(q.skill_id, rating_of(q.skill_id), q.required_rating) :
            q \in {x \in role_requirements_q :
                     rating_to_level(rating_of(x.skill_id))
                         < rating_to_level(x.required_rating)}}
        \cup
        {record(r.skill_id, r.rating, default_required_rating) :
            r \in {x \in employee_skills_q :
                     /\ x.skill_id \notin explicit_skill_ids
                     /\ rating_to_level(x.rating)
                            < rating_to_level(default_required_rating)}}

\* GET /api/learning/skill-gap-report: for employee in employees, skipping
\* the employees with no band and the employees with no gap
get_skill_gap_report ==
    /\ response' =
          [status |-> 200, op |-> "skill_gap_report",
           report |->
              {[employee_id |-> e, band |-> employees[e],
                skill_gaps |-> EmployeeGaps(employees[e], role_requirements,
                                  employee_skills, courses,
                                  course_assignments, e)] :
                 e \in {x \in DOMAIN employees :
                          /\ employees[x] # Null
                          /\ EmployeeGaps(employees[x], role_requirements,
                                 employee_skills, courses,
                                 course_assignments, x) # {}}}]
    /\ UNCHANGED <<employees, employee_skills, role_requirements, courses,
                   course_assignments, average, first_rating,
                   in_flight>>

(***************************************************************************)
(* The gaps of one employee, as the band analysis, the skill-gap report    *)
(* and the auto-assignment see them.  The employees table holds employee   *)
(* 1; its stored band, its rating rows, the requirements and the course    *)
(* tags are drawn from the seeds and stay as drawn.  The stored band may   *)
(* be stale: it is written by calculate-all only.                          *)
(***************************************************************************)
GapBands == {Null, "A", "C", "L1", "L2"}

GapRequirements ==
    {[id |-> 1, band |-> b, skill_id |-> s, required_rating |-> r,
      is_required |-> TRUE] :
        b \in {"A", "C", "L1", "L2"}, s \in SkillIds,
        r \in {"Intermediate", "Advanced", "Expert"}}

InitGap ==
    /\ \E b \in GapBands : employees = [e \in {1} |-> b]
    /\ \E cell \in [SkillIds -> SeedCells] :
          employee_skills =
              {SeedRow(Cardinality({t \in SkillIds :
                                      t <= s /\ cell[t] # "absent"}),
                       s, cell[s]) :
                  s \in {t \in SkillIds : cell[t] # "absent"}}
    /\ \/ role_requirements = {}
       \/ \E q \in GapRequirements : role_requirements = {q}
    /\ \E tag \in [CourseIds -> SkillIds \cup {NoSkill}] :
          /\ tag[1] = 1
          /\ courses = {[id |-> c, skill_id |-> tag[c]] : c \in CourseIds}
    /\ course_assignments = {}
    /\ average = Null
    /\ response = [status |-> 0]
    /\ first_rating = << >>
    /\ in_flight = << >>

GetEmployeeBandAnalysis ==
    \E e \in EmployeeIds : get_employee_band_analysis_endpoint(e)

GetSkillGapReport == get_skill_gap_report

NextGap ==
    \/ GetEmployeeBandAnalysis
    \/ GetSkillGapReport
    \/ AutoAssignBySkillGap
    \/ AutoAssignForEmployee
    \/ CalculateAll /\ UNCHANGED first_rating

SpecGap == InitGap /\ [][NextGap]_vars


\* C11: in every band analysis each gap record has
\* gap = current level - required level (the current level being the number
\* of the rating of the employee's row for the skill), the records with gap > 0 are the
\* ones counted above, gap = 0 at and gap < 0 below, and the three counts
\* add up to total_skills, the number of gap records.
C11_GapCounts ==
    ("op" \in DOMAIN response /\ response.op = "band_analysis") =>
        LET a == response.analysis
        IN  /\ \A g \in a.skill_gaps :
                  /\ g.gap = g.current_rating_number
                                - g.required_rating_number
                  /\ \E r \in employee_skills :
                        /\ r.employee_id = response.target
                        /\ r.skill_id = g.skill_id
                        /\ r.rating # Null
                        /\ g.current_rating_number
                               = RATING_TO_NUMBER[r.rating]
            /\ a.skills_above_requirement
                   = Cardinality({g \in a.skill_gaps : g.gap > 0})
            /\ a.skills_at_requirement
                   = Cardinality({g \in a.skill_gaps : g.gap = 0})
            /\ a.skills_below_requirement
                   = Cardinality({g \in a.skill_gaps : g.gap < 0})
            /\ a.skills_above_requirement + a.skills_at_requirement
                   + a.skills_below_requirement = a.total_skills
            /\ a.total_skills = Cardinality(a.skill_gaps)

\* An analysis with two gap records, one at its requirement (an explicit
\* row) and one below (the default).
C11_Witness ==
    /\ "op" \in DOMAIN response
    /\ response.op = "band_analysis"
    /\ response.analysis.total_skills = 2
    /\ response.analysis.skills_at_requirement = 1
    /\ response.analysis.skills_below_requirement = 1
    /\ \E g \in response.analysis.skill_gaps :
          g.gap = 0 /\ g.required_rating_number = 4


\* The employee's current level for a skill as the requirement loops read
\* it: the level of the rating of the row of (employee, skill), 0 when there
\* is no row or the rating is null.
CurrentLevel(rows, e, s) ==
    LET row == {r \in rows : r.employee_id = e /\ r.skill_id = s}
    IN  IF row = {} THEN 0
        ELSE rating_to_level((CHOOSE r \in row : TRUE).rating)

\* The explicit requirement rows of (band, skill).
ExplicitRows(reqs, band, s) == {q \in reqs : q.band = band /\ q.skill_id = s}

\* C12: explicit requirement rows take precedence in every path.  In a band
\* analysis a gap record is required against the row of (band, skill) when
\* there is one and against the default only when there is none; in the
\* skill-gap report likewise; and an auto-assign run assigns a course of a
\* skill with a row of (band, skill) exactly when the employee is below that
\* row's rating, and a course of a skill without such a row exactly when a
\* non-interested row of the employee is below the default of the band.  No
\* skill has two records in one analysis or report.
C12_ExplicitPrecedence ==
    [][/\ ("op" \in DOMAIN response' /\ response'.op = "band_analysis") =>
            LET a == response'.analysis
            IN  /\ \A g \in a.skill_gaps :
                      LET rows == ExplicitRows(role_requirements, a.band,
                                               g.skill_id)
                      IN  IF rows # {}
                          THEN \A q \in rows :
                                  /\ g.required_rating_text
                                         = q.required_rating
                                  /\ g.required_rating_number
                                         = RATING_TO_NUMBER[q.required_rating]
                          ELSE g.required_rating_number = 3
                /\ \A g1, g2 \in a.skill_gaps :
                      g1.skill_id = g2.skill_id => g1 = g2
       /\ ("op" \in DOMAIN response' /\ response'.op = "skill_gap_report") =>
            \A rep \in response'.report :
                /\ \A g \in rep.skill_gaps :
                      LET rows == ExplicitRows(role_requirements, rep.band,
                                               g.skill_id)
                      IN  IF rows # {}
                          THEN \A q \in rows :
                                  g.required_level = q.required_rating
                          ELSE g.required_level
                                   = BAND_DEFAULT_RATINGS(rep.band)
                /\ \A g1, g2 \in rep.skill_gaps :
                      g1.skill_id = g2.skill_id => g1 = g2
       /\ ("op" \in DOMAIN response' /\ response'.op = "auto_assign") =>
            \A e \in DOMAIN employees :
              (employees[e] # Null /\ response'.target \in {0, e}) =>
                \A c \in courses :
                  (/\ c.skill_id # NoSkill
                   /\ ExistingAssignment(course_assignments, e, c.id) = {}) =>
                     LET rows == ExplicitRows(role_requirements,
                                     employees[e], c.skill_id)
                         created ==
                            ExistingAssignment(course_assignments', e, c.id)
                                # {}
                     IN  IF rows # {}
                         THEN \A q \in rows :
                                 created <=>
                                    CurrentLevel(employee_skills, e,
                                                 c.skill_id)
                                      < rating_to_level(q.required_rating)
                         ELSE created <=>
                                 \E r \in employee_skills :
                                    /\ r.employee_id = e
                                    /\ r.skill_id = c.skill_id
                                    /\ r.is_interested = FALSE
                                    /\ rating_to_level(r.rating)
                                         < rating_to_level(
                                             BAND_DEFAULT_RATINGS(
                                                 employees[e]))
      ]_vars

\* An auto-assign run that left a course unassigned because the employee
\* meets the explicit requirement of its skill, although the non-interested
\* row of that skill is below the default of the band.
C12_Witness ==
    /\ "op" \in DOMAIN response
    /\ response.op = "auto_assign"
    /\ employees[1] # Null
    /\ \E c \in courses, q \in role_requirements, r \in employee_skills :
          /\ q.band = employees[1]
          /\ q.skill_id = c.skill_id
          /\ r.employee_id = 1
          /\ r.skill_id = c.skill_id
          /\ r.is_interested = FALSE
          /\ rating_to_level(r.rating) >= rating_to_level(q.required_rating)
          /\ rating_to_level(r.rating)
                < rating_to_level(BAND_DEFAULT_RATINGS(employees[1]))
          /\ ExistingAssignment(course_assignments, 1, c.id) = {}


\* The default level the claim gives for a band: A = 1, B = 2, C = 3,
\* L1 = 4, L2 = 5, and 3 for any other band string.
ClaimedDefaultLevel(band) ==
    CASE band = "A" -> 1
      [] band = "B" -> 2
      [] band = "C" -> 3
      [] band = "L1" -> 4
      [] band = "L2" -> 5
      [] OTHER -> 3

\* C13: two default policies for a (band, skill) with no explicit row.  The
\* skill-gap report and the auto-assignment require the default level of the
\* band (A = 1, B = 2, C = 3, L1 = 4, L2 = 5, Intermediate for another band
\* string); the band analysis requires Intermediate (3) whatever the band
\* and reports is_required = true.  Among the five bands the two policies
\* agree exactly for C.
C13_TwoDefaultPolicies ==
    [][/\ \A b \in Bands \cup {"Z"} :
            rating_to_level(BAND_DEFAULT_RATINGS(b)) = ClaimedDefaultLevel(b)
       /\ \A b \in Bands :
            (rating_to_level(BAND_DEFAULT_RATINGS(b)) = 3) <=> (b = "C")
       /\ ("op" \in DOMAIN response' /\ response'.op = "band_analysis") =>
            LET a == response'.analysis
            IN  \A g \in a.skill_gaps :
                   ExplicitRows(role_requirements, a.band, g.skill_id) = {}
                      => /\ g.required_rating_number = 3
                         /\ g.required_rating_text = "Intermediate"
                         /\ g.is_required = TRUE
       /\ ("op" \in DOMAIN response' /\ response'.op = "skill_gap_report") =>
            \A rep \in response'.report :
               \A g \in rep.skill_gaps :
                  ExplicitRows(role_requirements, rep.band, g.skill_id) = {}
                     => rating_to_level(g.required_level)
                            = ClaimedDefaultLevel(rep.band)
       /\ ("op" \in DOMAIN response' /\ response'.op = "skill_gap_report") =>
            \A e \in DOMAIN employees, r \in employee_skills :
               (/\ employees[e] # Null
                /\ r.employee_id = e
                /\ r.is_interested = FALSE
                /\ ExplicitRows(role_requirements, employees[e],
                                r.skill_id) = {})
                  => ((\E rep \in response'.report :
                          /\ rep.employee_id = e
                          /\ \E g \in rep.skill_gaps :
                                g.skill_id = r.skill_id)
                        <=> rating_to_level(r.rating)
                               < ClaimedDefaultLevel(employees[e]))
       /\ ("op" \in DOMAIN response' /\ response'.op = "auto_assign") =>
            \A e \in DOMAIN employees :
              (employees[e] # Null /\ response'.target \in {0, e}) =>
                \A c \in courses :
                  (/\ c.skill_id # NoSkill
                   /\ ExistingAssignment(course_assignments, e, c.id) = {}
                   /\ ExplicitRows(role_requirements, employees[e],
                                   c.skill_id) = {}) =>
                     (ExistingAssignment(course_assignments', e, c.id) # {}
                        <=> \E r \in employee_skills :
                               /\ r.employee_id = e
                               /\ r.skill_id = c.skill_id
                               /\ r.is_interested = FALSE
                               /\ rating_to_level(r.rating)
                                    < ClaimedDefaultLevel(employees[e]))
      ]_vars

\* A skill-gap report for an employee with stored band L2 whose Advanced
\* rating, without explicit requirement, is below the default Expert, while
\* the band analysis of the same rows requires Intermediate.
C13_Witness ==
    /\ "op" \in DOMAIN response
    /\ response.op = "skill_gap_report"
    /\ employees[1] = "L2"
    /\ \E rep \in response.report :
          \E g \in rep.skill_gaps :
             /\ g.current_level = "Advanced"
             /\ g.required_level = "Expert"
             /\ ExplicitRows(role_requirements, "L2", g.skill_id) = {}
             /\ \E h \in get_employee_band_analysis(employee_skills,
                            role_requirements, 1).skill_gaps :
                   /\ h.skill_id = g.skill_id
                   /\ h.required_rating_number = 3
                   /\ h.gap = 1


\* The required level a (band, skill) resolves to: the rating of the
\* explicit row when there is one, the default level of the band otherwise.
ResolvedLevel(reqs, band, s) ==
    IF ExplicitRows(reqs, band, s) # {}
    THEN rating_to_level(
            (CHOOSE q \in ExplicitRows(reqs, band, s) : TRUE).required_rating)
    ELSE ClaimedDefaultLevel(band)

\* C14: auto-assignment acts on strict deficiency only, and completely.  In
\* a run for employee e with stored band b, an assignment (e, c) is created
\* iff none existed before, c is tagged with a skill that has an explicit
\* requirement for b or a non-interested row of e, and the current level of
\* e for the skill is strictly below the resolved required level; one row is
\* created per such pair, and after the run every course of a deficient
\* skill has an assignment for e.
C14_StrictDeficiency ==
    [][("op" \in DOMAIN response' /\ response'.op = "auto_assign") =>
          \A e \in DOMAIN employees :
            (employees[e] # Null /\ response'.target \in {0, e}) =>
              \A c \in courses :
                 LET b == employees[e]
                     s == c.skill_id
                     evaluated ==
                        /\ s # NoSkill
                        /\ \/ ExplicitRows(role_requirements, b, s) # {}
                           \/ \E r \in employee_skills :
                                 /\ r.employee_id = e
                                 /\ r.skill_id = s
                                 /\ r.is_interested = FALSE
                     deficient ==
                        /\ evaluated
                        /\ CurrentLevel(employee_skills, e, s)
                              < ResolvedLevel(role_requirements, b, s)
                     created ==
                        {a \in course_assignments' \ course_assignments :
                            a.employee_id = e /\ a.course_id = c.id}
                 IN  /\ created # {} <=>
                           /\ ExistingAssignment(course_assignments, e, c.id)
                                 = {}
                           /\ deficient
                     /\ Cardinality(created) <= 1
                     /\ deficient =>
                           ExistingAssignment(course_assignments', e, c.id)
                               # {}
      ]_vars

\* An auto-assign run that created the assignment of a course whose skill
\* is below its explicit requirement and none for a course whose skill,
\* rated Beginner, meets the default of band A exactly.
C14_Witness ==
    /\ "op" \in DOMAIN response
    /\ response.op = "auto_assign"
    /\ response.assigned = 1
    /\ employees[1] = "A"
    /\ \E c1, c2 \in courses :
          /\ ExistingAssignment(course_assignments, 1, c1.id) # {}
          /\ ExplicitRows(role_requirements, "A", c1.skill_id) # {}
          /\ ExistingAssignment(course_assignments, 1, c2.id) = {}
          /\ ExplicitRows(role_requirements, "A", c2.skill_id) = {}
          /\ \E r \in employee_skills :
                /\ r.employee_id = 1
                /\ r.skill_id = c2.skill_id
                /\ r.is_interested = FALSE
                /\ r.rating = "Beginner"


(***************************************************************************)
(* Auto-assignment over assignments that learners have moved.  Employee 1  *)
(* has band C; employee 2, when there is one, has no band.  The band C     *)
(* requires Developing for skill 1; course 1 carries skill 1 and course 2  *)
(* skill 2.  Assignments are created one employee at a time, started and   *)
(* completed by their owners, and created by the auto-assign runs.         *)
(***************************************************************************)
InitFrame ==
    /\ \/ employees = [e \in {1} |-> "C"]
       \/ employees = [e \in {1, 2} |-> IF e = 1 THEN "C" ELSE Null]
    /\ \E cell \in {"absent", "low"} :
          employee_skills =
              {SeedRow(1, 2, cell) : x \in {y \in {1} : cell # "absent"}}
              \cup {[id |-> 2, employee_id |-> 2, skill_id |-> 1,
                     rating |-> "Beginner", initial_rating |-> "Beginner",
                     is_interested |-> FALSE] :
                        x \in {y \in {2} : y \in DOMAIN employees}}
    /\ role_requirements =
          {[id |-> 1, band |-> "C", skill_id |-> 1,
            required_rating |-> "Developing", is_required |-> TRUE]}
    /\ courses = {[id |-> c, skill_id |-> c] : c \in CourseIds}
    /\ course_assignments = {}
    /\ average = Null
    /\ response = [status |-> 0]
    /\ first_rating = << >>
    /\ in_flight = << >>

AssignCourseToOne ==
    \E c \in CourseIds, e \in EmployeeIds : assign_course(c, <<e>>)

NextFrame ==
    \/ AssignCourseToOne
    \/ StartCourse
    \/ CompleteCourse
    \/ AutoAssignBySkillGap
    \/ AutoAssignForEmployee

SpecFrame == InitFrame /\ [][NextFrame]_vars

\* The (employee, course) pairs an auto-assign run with the given target
\* (0 for all employees) visits: the employee has a band and the course
\* carries a skill the employee is deficient in.
VisitedPairs(target) ==
    {<<e, c.id>> : e \in {x \in DOMAIN employees :
                            employees[x] # Null /\ target \in {0, x}},
                   c \in courses} \cap
    {p \in EmployeeIds \X CourseIds :
        \E c \in courses :
           /\ c.id = p[2]
           /\ c.skill_id # NoSkill
           /\ \/ ExplicitRows(role_requirements, employees[p[1]],
                              c.skill_id) # {}
              \/ \E r \in employee_skills :
                    /\ r.employee_id = p[1]
                    /\ r.skill_id = c.skill_id
                    /\ r.is_interested = FALSE
           /\ CurrentLevel(employee_skills, p[1], c.skill_id)
                 < ResolvedLevel(role_requirements, employees[p[1]],
                                 c.skill_id)}

\* C15: auto-assignment only creates rows.  Every assignment that existed
\* before a run is there afterwards, unchanged in every field, whatever its
\* status; no row is created for a pair that had an assignment, and the
\* visited pairs that had one are the ones counted in skipped.
C15_AutoAssignOnlyCreates ==
    [][("op" \in DOMAIN response' /\ response'.op = "auto_assign") =>
          /\ course_assignments \subseteq course_assignments'
          /\ \A a \in course_assignments' \ course_assignments :
                /\ ExistingAssignment(course_assignments, a.employee_id,
                                      a.course_id) = {}
                /\ a.status = "NOT_STARTED"
          /\ response'.assigned
                = Cardinality(course_assignments' \ course_assignments)
          /\ response'.skipped
                = Cardinality({p \in VisitedPairs(response'.target) :
                      ExistingAssignment(course_assignments, p[1], p[2])
                          # {}})
      ]_vars

\* An auto-assign run that skipped a Completed assignment, which is still
\* Completed, and created another one.
C15_Witness ==
    /\ "op" \in DOMAIN response
    /\ response.op = "auto_assign"
    /\ response.skipped = 1
    /\ response.assigned = 1
    /\ \E a \in course_assignments :
          /\ a.employee_id = 1
          /\ a.status = "COMPLETED"
          /\ a.completed_at # Null
    /\ \E a \in course_assignments :
          a.employee_id = 1 /\ a.status = "NOT_STARTED"

\* C16: employees without a band.  The run for all employees succeeds,
\* creates no assignment for an employee whose band is null and counts
\* nothing for it in assigned or skipped; the run for one employee answers
\* 400 when the employee has no band and 404 when there is no such
\* employee, and then changes nothing.
C16_BandlessEmployees ==
    [][/\ auto_assign_courses_by_skill_gap =>
            /\ response'.status = 200
            /\ \A a \in course_assignments' \ course_assignments :
                  employees[a.employee_id] # Null
            /\ \A a \in course_assignments :
                  employees[a.employee_id] = Null
                      => a \in course_assignments'
            /\ response'.assigned
                  = Cardinality({a \in course_assignments'
                                        \ course_assignments :
                                    employees[a.employee_id] # Null})
            /\ response'.skipped
                  = Cardinality({p \in VisitedPairs(0) :
                        /\ employees[p[1]] # Null
                        /\ ExistingAssignment(course_assignments,
                                              p[1], p[2]) # {}})
       /\ \A e \in EmployeeIds :
            auto_assign_courses_for_employee(e) =>
               /\ e \notin DOMAIN employees =>
                     /\ response'.status = 404
                     /\ UNCHANGED <<employees, employee_skills,
                                    role_requirements, courses,
                                    course_assignments>>
               /\ (e \in DOMAIN employees /\ employees[e] = Null) =>
                     /\ response'.status = 400
                     /\ UNCHANGED <<employees, employee_skills,
                                    role_requirements, courses,
                                    course_assignments>>
      ]_vars

\* A run for all employees that assigned a course to the employee with a
\* band and none to the employee without one, whose Beginner rating is below
\* every default but Beginner.
C16_Witness ==
    /\ "op" \in DOMAIN response
    /\ response.op = "auto_assign"
    /\ response.target = 0
    /\ response.assigned >= 1
    /\ 2 \in DOMAIN employees
    /\ employees[2] = Null
    /\ \E r \in employee_skills : r.employee_id = 2 /\ r.rating = "Beginner"
    /\ \A a \in course_assignments : a.employee_id = 1


\* C17 (as claimed): the timestamps follow the status: NotStarted has neither
\* started_at nor completed_at, InProgress has started_at and no
\* completed_at, Completed has both.
C17_TimestampsFollowStatus ==
    \A a \in course_assignments :
        /\ a.status = "NOT_STARTED" =>
              a.started_at = Null /\ a.completed_at = Null
        /\ a.status = "IN_PROGRESS" =>
              a.started_at # Null /\ a.completed_at = Null
        /\ a.status = "COMPLETED" =>
              a.started_at # Null /\ a.completed_at # Null


\* The mixed scenario: employee 1 has stored band C and holds two rows, the
\* non-interested ratings Advanced for skill 1 (SQL) and Beginner for skill
\* 2 (Docker); the band C requires Intermediate for skill 1 and has no row
\* for skill 2.
MixedScenario ==
    /\ employees[1] = "C"
    /\ \A r \in employee_skills : r.employee_id = 1 => r.skill_id \in {1, 2}
    /\ \E r \in employee_skills :
          /\ r.employee_id = 1 /\ r.skill_id = 1
          /\ r.is_interested = FALSE /\ r.rating = "Advanced"
    /\ \E r \in employee_skills :
          /\ r.employee_id = 1 /\ r.skill_id = 2
          /\ r.is_interested = FALSE /\ r.rating = "Beginner"
    /\ \E q \in role_requirements :
          q.band = "C" /\ q.skill_id = 1 /\ q.required_rating = "Intermediate"
    /\ ExplicitRows(role_requirements, "C", 2) = {}

\* C18: in the mixed scenario the band analysis reports band C with the gap
\* +1 for SQL, counted above, and -2 for Docker, counted below; an
\* auto-assign run creates exactly one assignment of the employee for each
\* course tagged Docker that had none, and none for a course tagged SQL.
C18_MixedScenario ==
    [][MixedScenario =>
         /\ ("op" \in DOMAIN response' /\ response'.op = "band_analysis"
                /\ response'.target = 1) =>
               LET a == response'.analysis
               IN  /\ a.band = "C"
                   /\ a.total_skills = 2
                   /\ \E g \in a.skill_gaps : g.skill_id = 1 /\ g.gap = 1
                   /\ \E g \in a.skill_gaps : g.skill_id = 2 /\ g.gap = -2
                   /\ Cardinality(a.skill_gaps) = 2
                   /\ a.skills_above_requirement = 1
                   /\ a.skills_at_requirement = 0
                   /\ a.skills_below_requirement = 1
         /\ ("op" \in DOMAIN response' /\ response'.op = "auto_assign") =>
               LET created(c) ==
                      {a \in course_assignments' \ course_assignments :
                          a.employee_id = 1 /\ a.course_id = c.id}
               IN  /\ \A c \in courses :
                         (/\ c.skill_id = 2
                          /\ ExistingAssignment(course_assignments, 1, c.id)
                                = {})
                            => Cardinality(created(c)) = 1
                   /\ \A c \in courses : c.skill_id = 1 => created(c) = {}
      ]_vars

\* The band analysis of the mixed scenario, asked for after the auto-assign
\* run has assigned the Docker course.
C18_Witness ==
    /\ MixedScenario
    /\ "op" \in DOMAIN response
    /\ response.op = "band_analysis"
    /\ response.analysis.skills_above_requirement = 1
    /\ response.analysis.skills_below_requirement = 1
    /\ \E a \in course_assignments : a.employee_id = 1 /\ a.course_id = 2
    /\ \E c \in courses : c.id = 2 /\ c.skill_id = 2

\* C19 (as claimed): an auto-assign run creates no assignment for an
\* employee with stored band A and no rated skill, whatever the
\* requirements and the course tags.
C19_NoRatingNoAssignment ==
    [][("op" \in DOMAIN response' /\ response'.op = "auto_assign") =>
          \A e \in DOMAIN employees :
             (/\ employees[e] = "A"
              /\ calculate_employee_band(employee_skills, e) = "A"
              /\ \A r \in employee_skills :
                    r.employee_id = e => r.rating = Null)
                => \A a \in course_assignments' \ course_assignments :
                      a.employee_id # e
      ]_vars

\* C20: an employee with no qualifying rating (no row, interested rows only,
\* rows without rating only) is no error: calculate_employee_band gives A,
\* calculate-all stores A, and the band analysis answers with band A,
\* average 1.0, total_skills 0, the three counts 0 and no gap record.
C20_NoQualifyingRating ==
    [][\A e \in DOMAIN employees :
          (\A r \in employee_skills :
              r.employee_id = e => (r.is_interested \/ r.rating = Null))
            => /\ calculate_employee_band(employee_skills, e) = "A"
               /\ calculate_all_employee_bands => employees'[e] = "A"
               /\ get_employee_band_analysis_endpoint(e) =>
                     /\ response'.status = 200
                     /\ response'.analysis =
                           [band |-> "A", average_rating |-> 100,
                            total_skills |-> 0,
                            skills_above_requirement |-> 0,
                            skills_at_requirement |-> 0,
                            skills_below_requirement |-> 0,
                            skill_gaps |-> {}]
      ]_vars

\* The default analysis, given for an employee who holds an interested row
\* with a rating and a non-interested row without one.
C20_Witness ==
    /\ "op" \in DOMAIN response
    /\ response.op = "band_analysis"
    /\ response.analysis.total_skills = 0
    /\ response.analysis.average_rating = 100
    /\ \E r \in employee_skills :
          r.employee_id = response.target /\ r.is_interested
              /\ r.rating # Null
    /\ \E r \in employee_skills :
          r.employee_id = response.target /\ ~r.is_interested
              /\ r.rating = Null


\* C21: a band analysis has exactly one gap record for each skill the
\* employee holds a non-interested rating for, with or without an explicit
\* requirement, and no record for another skill: a skill the band requires
\* and the employee has not rated does not appear.
C21_OneRecordPerRatedSkill ==
    ("op" \in DOMAIN response /\ response.op = "band_analysis") =>
        LET a == response.analysis
            rated == {r.skill_id : r \in {x \in employee_skills :
                                            /\ x.employee_id = response.target
                                            /\ x.is_interested = FALSE
                                            /\ x.rating # Null}}
        IN  /\ {g.skill_id : g \in a.skill_gaps} = rated
            /\ Cardinality(a.skill_gaps) = Cardinality(rated)
            /\ a.total_skills = Cardinality(rated)

\* An analysis with one gap record, for the one skill the employee rated,
\* while the band it reports has an explicit requirement for a skill the
\* employee holds no row for.
C21_Witness ==
    /\ "op" \in DOMAIN response
    /\ response.op = "band_analysis"
    /\ Cardinality(response.analysis.skill_gaps) = 1
    /\ \E q \in role_requirements :
          /\ q.band = response.analysis.band
          /\ \A r \in employee_skills :
                r.employee_id = response.target => r.skill_id # q.skill_id
          /\ \A g \in response.analysis.skill_gaps : g.skill_id # q.skill_id


(***************************************************************************)
(* api/role_requirements.py: the role requirements                         *)
(***************************************************************************)
\* The bands and ratings the requirement requests carry.
ReqBands == {"A", "B"}

ReqRatings == {"Beginner", "Expert"}

\* The ids a requirement row may get.
MaxReqs == 3

\* db.query(Skill).filter(Skill.id == skill_id).first(): the skills table
\* holds the skills of SkillIds
SkillExists(skill_id) == skill_id \in SkillIds

\* UniqueConstraint("band", "skill_id", name="uq_band_skill_requirement")
uq_band_skill_requirement(rows) ==
    \A q1, q2 \in rows :
        (q1.band = q2.band /\ q1.skill_id = q2.skill_id) => q1.id = q2.id

\* the autoincrement primary key of role_requirements
NextRequirementId(rows) ==
    IF rows = {} THEN 1
    ELSE (CHOOSE i \in {q.id : q \in rows} :
             \A j \in {q.id : q \in rows} : j <= i) + 1

ReqUnchanged == UNCHANGED <<employees, employee_skills, courses,
                            course_assignments, average, first_rating,
                   in_flight>>

\* create_role_requirement without the check for an existing row.
create_role_requirement_unchecked(band, skill_id, required_rating, is_required) ==
    IF ~SkillExists(skill_id)
    THEN /\ response' = [status |-> 404]
         /\ UNCHANGED role_requirements
         /\ ReqUnchanged
    ELSE /\ role_requirements' = role_requirements \cup
               {[id |-> NextRequirementId(role_requirements),
                 band |-> band, skill_id |-> skill_id,
                 required_rating |-> required_rating,
                 is_required |-> is_required]}
         /\ response' = [status |-> 200, op |-> "create_role_requirement",
                         id |-> NextRequirementId(role_requirements)]
         /\ ReqUnchanged

\* POST /api/role-requirements (and POST /api/bands/requirements): 404 for
\* an unknown skill, 400 when a row of (band, skill) exists, a new row
\* otherwise
create_role_requirement(band, skill_id, required_rating, is_required) ==
    IF ~SkillExists(skill_id)
    THEN /\ response' = [status |-> 404]
         /\ UNCHANGED role_requirements
         /\ ReqUnchanged
    ELSE IF \E q \in role_requirements :
                q.band = band /\ q.skill_id = skill_id
    THEN /\ response' = [status |-> 400]
         /\ UNCHANGED role_requirements
         /\ ReqUnchanged
    ELSE /\ role_requirements' = role_requirements \cup
               {[id |-> NextRequirementId(role_requirements),
                 band |-> band, skill_id |-> skill_id,
                 required_rating |-> required_rating,
                 is_required |-> is_required]}
         /\ response' = [status |-> 200, op |-> "create_role_requirement",
                         id |-> NextRequirementId(role_requirements)]
         /\ ReqUnchanged

\* PUT /api/role-requirements/{requirement_id}: the four fields are
\* assigned with no check for another row of the new (band, skill); the
\* commit then hits the unique constraint, the IntegrityError is not caught
\* (a 500) and the table is as it was
update_role_requirement(requirement_id, band, skill_id, required_rating, is_required) ==
    LET found == {q \in role_requirements : q.id = requirement_id}
        requirement == CHOOSE q \in found : TRUE
        updated == (role_requirements \ found) \cup
                      {[id |-> requirement_id, band |-> band,
                        skill_id |-> skill_id,
                        required_rating |-> required_rating,
                        is_required |-> is_required]}
    IN  IF found = {} \/ ~SkillExists(skill_id)
        THEN /\ response' = [status |-> 404]
             /\ UNCHANGED role_requirements
             /\ ReqUnchanged
        ELSE IF ~uq_band_skill_requirement(updated)
        THEN /\ response' = [status |-> 500]
             /\ UNCHANGED role_requirements
             /\ ReqUnchanged
        ELSE /\ role_requirements' = updated
             /\ response' = [status |-> 200,
                             op |-> "update_role_requirement",
                             id |-> requirement_id]
             /\ ReqUnchanged

\* DELETE /api/role-requirements/{requirement_id}
delete_role_requirement(requirement_id) ==
    LET found == {q \in role_requirements : q.id = requirement_id}
    IN  IF found = {}
        THEN /\ response' = [status |-> 404]
             /\ UNCHANGED role_requirements
             /\ ReqUnchanged
        ELSE /\ role_requirements' = role_requirements \ found
             /\ response' = [status |-> 200,
                             op |-> "delete_role_requirement",
                             id |-> requirement_id]
             /\ ReqUnchanged

(***************************************************************************)
(* The requirements table under the admin requests, from an empty table.   *)
(***************************************************************************)
InitReq ==
    /\ NoTables
    /\ average = Null
    /\ response = [status |-> 0]

CreateRoleRequirement ==
    \E b \in ReqBands, s \in 1..(MaxSkills + 1), r \in ReqRatings :
        /\ NextRequirementId(role_requirements) <= MaxReqs
        /\ create_role_requirement(b, s, r, TRUE)

UpdateRoleRequirement ==
    \E id \in 1..MaxReqs, b \in ReqBands, s \in 1..(MaxSkills + 1),
       r \in ReqRatings, req \in BOOLEAN :
        update_role_requirement(id, b, s, r, req)

DeleteRoleRequirement ==
    \E id \in 1..MaxReqs : delete_role_requirement(id)

NextReq ==
    \/ CreateRoleRequirement
    \/ UpdateRoleRequirement
    \/ DeleteRoleRequirement

SpecReq == InitReq /\ [][NextReq]_vars

\* C22: there is at most one RoleRequirement row per (band, skill) after any
\* create, update and delete; a create for a pair that has a row answers
\* 400 and changes nothing, and an update onto the pair of another row does
\* not leave two rows of the pair.
C22_OneRequirementPerPair ==
    [][/\ \A q1, q2 \in role_requirements' :
            (q1.band = q2.band /\ q1.skill_id = q2.skill_id) => q1 = q2
       /\ \A b \in ReqBands, s \in SkillIds, r \in ReqRatings :
            (/\ create_role_requirement(b, s, r, TRUE)
             /\ \E q \in role_requirements : q.band = b /\ q.skill_id = s)
               => /\ response'.status = 400
                  /\ role_requirements' = role_requirements
      ]_vars

\* An update onto the pair of another row, answered 500 with the two rows as
\* they were, one of them written by an earlier update.
C22_Witness ==
    /\ response = [status |-> 500]
    /\ Cardinality(role_requirements) = 2
    /\ \E q \in role_requirements : q.is_required = FALSE


(***************************************************************************)
(* Requests in flight.  A handler opens its session, runs its queries and  *)
(* its loop against the committed tables, and writes at db.commit(); no    *)
(* handler takes a lock.  Between the reads of one request and its commit  *)
(* another request can read and commit.  A request in flight holds what it *)
(* read and what it is about to write:                                     *)
(*   bands    the employees table as read,                                 *)
(*   queued   the rows handed to db.add(), ids counted from 1,             *)
(*   writes   the bands assigned to Employee objects,                      *)
(*   response the response the handler has computed.                       *)
(***************************************************************************)
MaxInFlight == 2

RequestSlots == 1..MaxInFlight

\* the slot a request arriving now is served in
FreeSlot ==
    CHOOSE s \in RequestSlots \ DOMAIN in_flight :
        \A t \in RequestSlots \ DOMAIN in_flight : s <= t

RaceUnchanged == UNCHANGED <<employee_skills, role_requirements, courses,
                             average, first_rating>>

\* a request that has run its queries and its loop and stands before
\* db.commit()
ReadRequest(request) ==
    /\ DOMAIN in_flight # RequestSlots
    /\ in_flight' =
           [s \in DOMAIN in_flight \cup {FreeSlot} |->
                IF s = FreeSlot THEN request ELSE in_flight[s]]
    /\ UNCHANGED <<employees, course_assignments, response>>
    /\ RaceUnchanged

\* the rows of a request with their ids counted from 1
Unnumbered(queued, assignments) ==
    {[a EXCEPT !.id = @ - Cardinality(assignments)] : a \in queued}

\* auto_assign_courses_by_skill_gap up to its db.commit(): the employees
\* query, the two loops and the existence checks
auto_assign_courses_by_skill_gap_read ==
    LET out == AutoAssignAll(DOMAIN employees, employees, role_requirements,
                   employee_skills, courses, course_assignments,
                   [queued |-> {}, assigned |-> 0, skipped |-> 0])
    IN  ReadRequest(
            [op |-> "auto_assign",
             bands |-> employees,
             queued |-> Unnumbered(out.queued, course_assignments),
             writes |-> << >>,
             response |-> [status |-> 200, op |-> "auto_assign",
                           target |-> 0, assigned |-> out.assigned,
                           skipped |-> out.skipped]])

\* assign_course up to its db.commit(); an unknown course is answered with
\* 404 at once
assign_course_read(course_id, employee_ids) ==
    IF \A c \in courses : c.id # course_id
    THEN /\ response' = [status |-> 404]
         /\ UNCHANGED <<employees, course_assignments, in_flight>>
         /\ RaceUnchanged
    ELSE LET adding == {i \in DOMAIN employee_ids :
                          /\ employee_ids[i] \in DOMAIN employees
                          /\ ExistingAssignment(course_assignments,
                                 employee_ids[i], course_id) = {}}
             queued == {NewAssignment(
                           Cardinality({j \in adding : j <= i}),
                           employee_ids[i], course_id) : i \in adding}
         IN  ReadRequest(
                 [op |-> "assign_course",
                  bands |-> employees,
                  queued |-> queued,
                  writes |-> << >>,
                  response |-> [status |-> 200, op |-> "assign_course",
                                assigned |-> Cardinality(adding),
                                skipped |-> Len(employee_ids)
                                                - Cardinality(adding)]])

\* calculate_all_employee_bands up to its db.commit(): employee.band is
\* assigned on the objects whose band differs from the calculated one
calculate_all_employee_bands_read ==
    LET out == calculate_all_result(employees, employee_skills)
    IN  ReadRequest(
            [op |-> "calculate_all",
             bands |-> employees,
             queued |-> {},
             writes |-> [e \in {x \in DOMAIN employees :
                                  employees[x] # out.employees[x]} |->
                             out.employees[e]],
             response |-> [status |-> 200,
                           total_employees |-> out.total_employees,
                           updated |-> out.updated]])

\* commit with the queued rows checked again, against the bands stored at
\* the time of the commit.
commit_rechecked(slot) ==
    LET request == in_flight[slot]
        kept == {a \in request.queued :
                    /\ employees[a.employee_id] # Null
                    /\ a.course_id \in
                           VisitedCourses(employees[a.employee_id],
                               role_requirements, employee_skills, courses,
                               a.employee_id)}
        inserted == {[a EXCEPT !.id = Cardinality(course_assignments)
                                   + Cardinality({b \in kept : b.id <= a.id})] :
                        a \in kept}
    IN  /\ course_assignments' =
               CommitAssignments(course_assignments, inserted)
        /\ employees' = [e \in DOMAIN employees |->
                            IF e \in DOMAIN request.writes
                            THEN request.writes[e] ELSE employees[e]]
        /\ response' = request.response
        /\ in_flight' = [s \in DOMAIN in_flight \ {slot} |-> in_flight[s]]
        /\ RaceUnchanged

\* db.commit() of the request in a slot: the queued rows are inserted with
\* the next ids of the table, the assigned bands are written, the handler
\* returns its response
commit(slot) ==
    LET request == in_flight[slot]
        inserted == {[a EXCEPT !.id = @ + Cardinality(course_assignments)] :
                        a \in request.queued}
    IN  /\ course_assignments' =
               CommitAssignments(course_assignments, inserted)
        /\ employees' = [e \in DOMAIN employees |->
                            IF e \in DOMAIN request.writes
                            THEN request.writes[e] ELSE employees[e]]
        /\ response' = request.response
        /\ in_flight' = [s \in DOMAIN in_flight \ {slot} |-> in_flight[s]]
        /\ RaceUnchanged

(***************************************************************************)
(* Employee 1 with a stored band, rated rows on some skills, one course    *)
(* per skill, no explicit requirement; at most MaxInFlight requests stand  *)
(* between their reads and their commit.                                   *)
(***************************************************************************)
RaceBands == {"A", "C"}

RaceCells == {"absent", "low", "high"}

InitRace ==
    /\ \E b \in RaceBands : employees = [e \in {1} |-> b]
    /\ \E cell \in [SkillIds -> RaceCells] :
          employee_skills =
              {SeedRow(Cardinality({t \in SkillIds :
                                      t <= s /\ cell[t] # "absent"}),
                       s, cell[s]) :
                  s \in {t \in SkillIds : cell[t] # "absent"}}
    /\ role_requirements = {}
    /\ courses = {[id |-> c, skill_id |-> c] : c \in CourseIds}
    /\ course_assignments = {}
    /\ average = Null
    /\ response = [status |-> 0]
    /\ first_rating = << >>
    /\ in_flight = << >>

AutoAssignRead == auto_assign_courses_by_skill_gap_read

AssignCourseRead ==
    \E c \in CourseIds, e \in EmployeeIds : assign_course_read(c, <<e>>)

CalculateAllRead == calculate_all_employee_bands_read

Commit == \E slot \in DOMAIN in_flight : commit(slot)

NextRace ==
    \/ AutoAssignRead
    \/ AssignCourseRead
    \/ CalculateAllRead
    \/ Commit

SpecRace == InitRace /\ [][NextRace]_vars

\* C23: when two requests that create assignments run concurrently, each
\* with its existence check and its insert in its own transaction, at most
\* one CourseAssignment row per (employee, course) exists once both have
\* committed.
C23_OnePerPairUnderInterleaving ==
    in_flight = << >> =>
        \A a, b \in course_assignments :
            (a.employee_id = b.employee_id /\ a.course_id = b.course_id)
                => a = b


(***************************************************************************)
(* A team: every employee of EmployeeIds exists, with or without a band;   *)
(* each holds rated rows on some skills; one course per skill; at most one *)
(* explicit requirement.                                                   *)
(***************************************************************************)
TeamBands == {Null, "C"}

TeamCells == {"absent", "low", "high"}

TeamRequirements ==
    {[id |-> 1, band |-> "C", skill_id |-> 1, required_rating |-> "Expert",
      is_required |-> TRUE]}

InitTeam ==
    /\ employees \in [EmployeeIds -> TeamBands]
    /\ \E cell \in [EmployeeIds \X SkillIds -> TeamCells] :
          employee_skills =
              {[SeedRow((p[1] - 1) * MaxSkills + p[2], p[2], cell[p])
                    EXCEPT !.employee_id = p[1]] :
                  p \in {q \in EmployeeIds \X SkillIds :
                            cell[q] # "absent"}}
    /\ role_requirements \in {{}, TeamRequirements}
    /\ courses = {[id |-> c, skill_id |-> c] : c \in CourseIds}
    /\ course_assignments = {}
    /\ average = Null
    /\ response = [status |-> 0]
    /\ first_rating = << >>
    /\ in_flight = << >>

NextTeam ==
    \/ AssignCourseToOne
    \/ AutoAssignBySkillGap
    \/ AutoAssignForEmployee

SpecTeam == InitTeam /\ [][NextTeam]_vars

\* the (employee, course) pairs of a set of assignment rows
Pairs(rows) == {<<a.employee_id, a.course_id>> : a \in rows}

\* the orders in which the employees with a band can be taken
BandedOrders ==
    LET banded == {e \in DOMAIN employees : employees[e] # Null}
    IN  {order \in [1..Cardinality(banded) -> banded] :
            \A i, j \in DOMAIN order : order[i] = order[j] => i = j}

\* what one single-employee run does to a table of assignments
SingleRun(assignments, employee_id) ==
    AutoAssignEmployee(employees[employee_id], role_requirements,
        employee_skills, courses, assignments, employee_id,
        NextAssignmentId(assignments))

\* the single-employee runs of an order, one after the other, each on the
\* table the one before it committed
RECURSIVE RunEach(_, _)
RunEach(order, acc) ==
    IF order = << >> THEN acc
    ELSE LET one == SingleRun(acc.rows, Head(order))
         IN  RunEach(Tail(order),
                [rows |-> CommitAssignments(acc.rows, one.queued),
                 assigned |-> acc.assigned + one.assigned,
                 skipped |-> acc.skipped + one.skipped])

RankBands == {"A", "B", "C", "L1", "L2"}

InitRank ==
    /\ \E b \in RankBands : employees = [e \in {1} |-> b]
    /\ \/ employee_skills = {}
       \/ \E r \in RatingEnum \cup {Null} :
             employee_skills =
                 {[id |-> 1, employee_id |-> 1, skill_id |-> 1,
                   rating |-> r, initial_rating |-> r,
                   is_interested |-> FALSE]}
    /\ \/ role_requirements = {}
       \/ \E b \in RankBands, q \in RatingEnum :
             role_requirements =
                 {[id |-> 1, band |-> b, skill_id |-> 1,
                   required_rating |-> q, is_required |-> TRUE]}
    /\ courses = {[id |-> c, skill_id |-> c] : c \in CourseIds}
    /\ course_assignments = {}
    /\ average = Null
    /\ response = [status |-> 0]
    /\ first_rating = << >>
    /\ in_flight = << >>

NextRank ==
    \/ GetEmployeeBandAnalysis
    \/ GetSkillGapReport
    \/ AutoAssignBySkillGap

SpecRank == InitRank /\ [][NextRank]_vars

\* the ratings in the order of RatingEnum
RatingOrder == <<"Beginner", "Developing", "Intermediate", "Advanced",
                 "Expert">>

\* C25: the rank of a rating is one total order: Beginner, Developing,
\* Intermediate, Advanced, Expert rank 1..5, injectively and increasingly,
\* no rating ranks 0, and RATING_TO_NUMBER and rating_to_level give the same
\* number for every rating; the numbers of a band analysis are the levels
\* auto-assignment compares, and a gap the report lists is a gap by
\* RATING_TO_NUMBER with an absent row or a null rating at 0.
C25_OneRankOrder ==
    /\ \A i \in DOMAIN RatingOrder :
          /\ RATING_TO_NUMBER[RatingOrder[i]] = i
          /\ rating_to_level(RatingOrder[i]) = i
    /\ \A r \in RatingEnum :
          /\ \E i \in DOMAIN RatingOrder : RatingOrder[i] = r
          /\ RATING_TO_NUMBER[r] = rating_to_level(r)
          /\ rating_to_level(Null) < rating_to_level(r)
    /\ rating_to_level(Null) = 0
    /\ ("op" \in DOMAIN response /\ response.op = "band_analysis") =>
          \A g \in response.analysis.skill_gaps :
              /\ g.required_rating_number
                     = rating_to_level(g.required_rating_text)
              /\ \E r \in employee_skills :
                    /\ r.employee_id = response.target
                    /\ r.skill_id = g.skill_id
                    /\ g.current_rating_number = rating_to_level(r.rating)
    /\ ("op" \in DOMAIN response /\ response.op = "skill_gap_report") =>
          \A e \in response.report : \A g \in e.skill_gaps :
              (IF g.current_level = Null THEN 0
               ELSE RATING_TO_NUMBER[g.current_level])
                  < RATING_TO_NUMBER[g.required_level]
    /\ \A a \in course_assignments :
          LET row == {r \in employee_skills :
                        /\ r.employee_id = a.employee_id
                        /\ r.skill_id = a.course_id}
              explicit == {q \in role_requirements :
                             /\ q.band = employees[a.employee_id]
                             /\ q.skill_id = a.course_id}
              rating == IF row = {} THEN Null
                        ELSE (CHOOSE r \in row : TRUE).rating
              required == IF explicit # {}
                          THEN (CHOOSE q \in explicit : TRUE).required_rating
                          ELSE BAND_DEFAULT_RATINGS(employees[a.employee_id])
          IN  (IF rating = Null THEN 0 ELSE RATING_TO_NUMBER[rating])
                  < RATING_TO_NUMBER[required]

\* a band analysis that ranked a Developing row against an Expert
\* requirement after auto-assignment had found the same row below it
C25_Witness ==
    /\ "op" \in DOMAIN response
    /\ response.op = "band_analysis"
    /\ \E g \in response.analysis.skill_gaps :
          /\ g.current_rating_number = 2
          /\ g.required_rating_number = 5
          /\ \E a \in course_assignments :
                a.employee_id = response.target /\ a.course_id = g.skill_id


\* C27: calculate-all is idempotent: in the state a calculate-all leaves, a
\* second calculate-all reports updated = 0 and leaves the stored band of
\* every employee as it is.
C27_CalculateAllIdempotent ==
    "updated" \in DOMAIN response =>
        LET second == calculate_all_result(employees, employee_skills)
        IN  /\ second.updated = 0
            /\ second.employees = employees
            /\ second.total_employees = response.total_employees

\* the state two runs in a row leave: bands written by a run, among them
\* one other than A, and a run that found nothing to update
C27_Witness ==
    /\ "updated" \in DOMAIN response
    /\ response.updated = 0
    /\ response.total_employees = Cardinality(DOMAIN employees)
    /\ \E e \in DOMAIN employees : employees[e] \notin {Null, "A"}
    /\ \A e \in DOMAIN employees :
          employees[e] = calculate_employee_band(employee_skills, e)


\* C28: in every state reached by creating assignments and by start_course,
\* complete_course and update_assignment, an assignment whose completed_at
\* is set has started_at set.
C28_CompletedImpliesStarted ==
    \A a \in course_assignments :
        a.completed_at # Null => a.started_at # Null

\* an assignment with both timestamps that update_assignment has since put
\* back to NotStarted, next to one completed by its owner
C28_Witness ==
    /\ "op" \in DOMAIN response
    /\ response.op = "complete_course"
    /\ \E a \in course_assignments :
          /\ a.status = "NOT_STARTED"
          /\ a.completed_at # Null
          /\ a.started_at # Null
    /\ \E a \in course_assignments :
          /\ a.status = "COMPLETED"
          /\ a.completed_at # Null
          /\ a.started_at # Null


\* C29: the skill-gap report and auto-assignment agree: for every employee
\* with a band, a course is listed under available_courses of some gap of
\* the employee in the report exactly when an all-employees auto-assign run
\* from the same state creates the assignment of the employee and the
\* course; and the report of the state an all-employees run leaves lists no
\* available course.
C29_ReportAgreesWithAutoAssign ==
    /\ ("op" \in DOMAIN response /\ response.op = "skill_gap_report") =>
          LET out == AutoAssignAll(DOMAIN employees, employees,
                         role_requirements, employee_skills, courses,
                         course_assignments,
                         [queued |-> {}, assigned |-> 0, skipped |-> 0])
              listed == {<<e.employee_id, c>> :
                            e \in response.report, c \in CourseIds}
                        \cap
                        {p \in EmployeeIds \X CourseIds :
                            \E e \in response.report :
                                /\ e.employee_id = p[1]
                                /\ \E g \in e.skill_gaps :
                                      p[2] \in g.available_courses}
          IN  /\ listed = {<<a.employee_id, a.course_id>> : a \in out.queued}
              /\ \A e \in response.report : employees[e.employee_id] # Null
    /\ ("op" \in DOMAIN response /\ response.op = "auto_assign"
            /\ response.target = 0) =>
          \A e \in DOMAIN employees :
              employees[e] # Null =>
                  \A g \in EmployeeGaps(employees[e], role_requirements,
                               employee_skills, courses, course_assignments,
                               e) :
                      g.available_courses = {}

\* a report that lists one course of the employee as available and another
\* as assigned
C29_Witness ==
    /\ "op" \in DOMAIN response
    /\ response.op = "skill_gap_report"
    /\ \E e \in response.report :
          /\ \E g \in e.skill_gaps : g.available_courses # {}
          /\ \E g \in e.skill_gaps : g.assigned_courses # {}


\* C30: the band a band analysis reports is the band calculate_employee_band
\* returns for the same rows, whatever band is stored for the employee; in
\* the state a calculate-all leaves it is the stored band of the employee.
C30_AnalysisBandIsCalculatedBand ==
    /\ ("op" \in DOMAIN response /\ response.op = "band_analysis") =>
          response.analysis.band
              = calculate_employee_band(employee_skills, response.target)
    /\ "updated" \in DOMAIN response =>
          \A e \in DOMAIN employees :
              get_employee_band_analysis(employee_skills, role_requirements,
                  e).band = employees[e]

\* an analysis of rated rows whose band is not the band stored for the
\* employee
C30_Witness ==
    /\ "op" \in DOMAIN response
    /\ response.op = "band_analysis"
    /\ response.analysis.total_skills > 0
    /\ employees[response.target] # Null
    /\ response.analysis.band # employees[response.target]


\* C26: calculate-all and auto-assign are not safe to interleave: an
\* auto-assign run evaluates the deficiencies against the bands it read, not
\* against the bands stored when it commits.  Every row its commit inserts
\* is for a skill deficient under the band the run read for the employee,
\* the rows inserted are as many as its response reports, and the commit
\* writes no band; so when a calculate-all commits between the read and the
\* commit, the rows can be for skills not deficient under the band now
\* stored.
C26_StaleBandEvaluation ==
    [][\A slot \in DOMAIN in_flight :
          (in_flight[slot].op = "auto_assign" /\ commit(slot)) =>
              LET request == in_flight[slot]
                  created == course_assignments' \ course_assignments
              IN  /\ Cardinality(created) = request.response.assigned
                  /\ \A a \in created :
                        /\ request.bands[a.employee_id] # Null
                        /\ a.course_id \in
                               VisitedCourses(request.bands[a.employee_id],
                                   role_requirements, employee_skills,
                                   courses, a.employee_id)
                  /\ employees' = employees
      ]_vars

\* both have committed, the auto-assign run last: the stored bands are the
\* calculated ones, the run has created rows, and no assignment is for a
\* skill deficient under the band now stored
C26_Witness ==
    /\ in_flight = << >>
    /\ "op" \in DOMAIN response
    /\ response.op = "auto_assign"
    /\ response.assigned >= 1
    /\ \A e \in DOMAIN employees :
          employees[e] = calculate_employee_band(employee_skills, e)
    /\ course_assignments # {}
    /\ \A a \in course_assignments :
          a.course_id \notin
              VisitedCourses(employees[a.employee_id], role_requirements,
                  employee_skills, courses, a.employee_id)

====
